---- MODULE Spec2Model ----
(***************************************************************************)
(* Model of the v2 test execution engine (engines/api-engine/apisix):      *)
(* TestCaseExecutor.execute, the StepExecutor lifecycle with the request   *)
(* executor, and the ResultCollector (collect, to_v2_json, masking).       *)
(*                                                                         *)
(* JSON-like values (response envelopes, variable dictionaries) are        *)
(* represented as "docs": functions from key paths to scalar leaves.  A    *)
(* key is a sequence of one-character strings so that key.lower() and the  *)
(* substring test of the masking code can be computed.  The empty doc      *)
(* stands for None and for an empty dict, which the code treats alike      *)
(* (both are falsy).                                                       *)
(***************************************************************************)
EXTENDS Integers, Sequences, FiniteSets, TLC

VARIABLES
    pc,            \* position of the running executor
    test_case,     \* TestCaseExecutor.test_case: [config, steps]
    cur,           \* index of the top-level step the for loop of execute is at
    step_results,  \* TestCaseExecutor.execute: step_results
    report,        \* the dictionary returned by to_v2_json
    vm,            \* VariableManager: [global_vars, profile_vars, extracted_vars]
    executor,      \* the StepExecutor in use: [step, retry_times, previous_results]
    result,        \* StepExecutor.execute: result
    attempt,       \* StepExecutor.execute: loop variable of the retry loop
    trace,         \* what the running step executor has done so far (history)
    heap,          \* the dict objects in memory, by reference
    call,          \* the arguments of the call in progress
    ret            \* what the calls made so far returned

vars ==
    <<pc, test_case, cur, step_results, report, vm, executor, result, attempt, trace,
      heap, call, ret>>

-----------------------------------------------------------------------------
(* Bounds of the model *)

MaxSteps == 2        \* top-level steps of a test case
MaxRetry == 2        \* largest retry_times a step or a config declares
MaxLen == 3          \* StepResults handed to collect
MaxRules == 2        \* rules handed to ValidationEngine.validate
MaxOps == 4          \* operations on a VariableManager used on its own
MaxWait == 3         \* longest max_wait of a conditional wait that polls
MaxCode == 1000      \* largest integer handed to Comparators.status_code
MaxBackoff == 5      \* largest retry_times of the steps that run the backoff schedule

-----------------------------------------------------------------------------
(* Keys, paths and docs *)

k_token == <<"t", "o", "k", "e", "n">>
k_tok == <<"t", "o", "k">>
k_user == <<"u", "s", "e", "r">>
k_id == <<"i", "d">>
k_password == <<"p", "a", "s", "s", "w", "o", "r", "d">>
k_apiKey == <<"a", "p", "i", "K", "e", "y">>
k_status_code == <<"s", "t", "a", "t", "u", "s", "_", "c", "o", "d", "e">>
k_body == <<"b", "o", "d", "y">>

EmptyDoc == <<>>

Leaf(s) == [p \in {<<>>} |-> s]

IsPrefix(a, b) == Len(a) <= Len(b) /\ SubSeq(b, 1, Len(a)) = a

\* the doc {key: value}
Wrap(key, value) == [p \in {<<key>> \o q : q \in DOMAIN value} |-> value[SubSeq(p, 2, Len(p))]]

\* the value found under the path prefix (EmptyDoc when there is none)
Subtree(doc, prefix) ==
    [q \in {SubSeq(p, Len(prefix) + 1, Len(p)) : p \in {x \in DOMAIN doc : IsPrefix(prefix, x)}}
        |-> doc[prefix \o q]]

TopKeys(doc) == {p[1] : p \in {x \in DOMAIN doc : Len(x) > 0}}

\* dict.update(other) and d[key] = value: the keys of other replace those of doc
DocUpdate(doc, other) ==
    LET keep == {p \in DOMAIN doc : Len(p) > 0 /\ p[1] \notin TopKeys(other)}
    IN [p \in keep \cup {x \in DOMAIN other : Len(x) > 0} |->
            IF p \in keep THEN doc[p] ELSE other[p]]

DocSet(doc, key, value) == DocUpdate(doc, Wrap(key, value))

-----------------------------------------------------------------------------
(* ResultCollector: masking (collector.py) *)

sensitive_patterns ==
    { <<"p", "a", "s", "s", "w", "o", "r", "d">>, <<"p", "w", "d">>,
      <<"t", "o", "k", "e", "n">>, <<"s", "e", "c", "r", "e", "t">>,
      <<"k", "e", "y">>, <<"a", "u", "t", "h">> }

\* str.lower() on the characters the keys of the model use
LowerChar(c) ==
    CASE c = "K" -> "k"
      [] c = "T" -> "t"
      [] c = "P" -> "p"
      [] c = "X" -> "x"
      [] OTHER -> c

Lower(key) == [i \in 1..Len(key) |-> LowerChar(key[i])]

\* pattern in s
Contains(pattern, s) ==
    \E i \in 0..(Len(s) - Len(pattern)) : SubSeq(s, i + 1, i + Len(pattern)) = pattern

\* any(pattern in key.lower() for pattern in self.sensitive_patterns)
IsSensitive(key) == \E pattern \in sensitive_patterns : Contains(pattern, Lower(key))

MASK == "***"

\* the image of one path under the recursive masking: cut at the first sensitive key
RECURSIVE MaskedPath(_)
MaskedPath(p) ==
    IF p = <<>> THEN <<>>
    ELSE IF IsSensitive(Head(p)) THEN <<Head(p)>>
    ELSE <<Head(p)>> \o MaskedPath(Tail(p))

\* ResultCollector._mask_sensitive_data with mask_sensitive = True
_mask_sensitive_data(data) ==
    [q \in {MaskedPath(p) : p \in DOMAIN data} |->
        IF q \in DOMAIN data /\ (q = <<>> \/ ~IsSensitive(q[Len(q)])) THEN data[q] ELSE MASK]

\* ResultCollector._mask_variables with mask_sensitive = True: top-level keys only
_mask_variables(variables) ==
    LET ShallowPath(p) == IF Len(p) > 0 /\ IsSensitive(p[1]) THEN <<p[1]>> ELSE p
    IN [q \in {ShallowPath(p) : p \in DOMAIN variables} |->
            IF Len(q) > 0 /\ IsSensitive(q[1]) THEN MASK ELSE variables[q]]

-----------------------------------------------------------------------------
(* Data model (core/models.py) *)

NoError == [type |-> "None", category |-> "None", message |-> <<>>]

NoSnapshot == [global |-> EmptyDoc, profile |-> EmptyDoc, extracted |-> EmptyDoc]

\* StepResult(name, status) with the defaults of the dataclass
StepResult(name, status) ==
    [ name |-> name, status |-> status, response |-> EmptyDoc,
      extracted_vars |-> EmptyDoc, validation_results |-> <<>>,
      error_info |-> NoError, end_time |-> FALSE, retry_count |-> 0,
      variables_snapshot |-> NoSnapshot ]

StepStatuses == {"success", "failure", "skipped", "error", "pending"}

StepNames == <<"A", "B", "C", "D">>

NoReport == [ test_case |-> [status |-> "None"],
              statistics |-> [total_steps |-> 0, passed_steps |-> 0,
                              failed_steps |-> 0, skipped_steps |-> 0],
              steps |-> <<>>, final_variables |-> EmptyDoc, error_info |-> NoError ]

-----------------------------------------------------------------------------
(* ResultCollector.collect and to_v2_json (collector.py) *)

Count(results, status) == Cardinality({i \in 1..Len(results) : results[i].status = status})

CaseStatus_empty_passes(results) ==
    IF Count(results, "failure") > 0 THEN "failed"
    ELSE IF Len(results) > 0 /\ Count(results, "skipped") = Len(results) THEN "skipped"
    ELSE "passed"

\* collect: "Determine overall status"
CaseStatus(results) ==
    IF Count(results, "failure") > 0 THEN "failed"
    ELSE IF Count(results, "skipped") = Len(results) THEN "skipped"
    ELSE "passed"

\* collect: "Collect final variables"
RECURSIVE FinalVariables(_)
FinalVariables(results) ==
    IF results = <<>> THEN EmptyDoc
    ELSE DocUpdate(FinalVariables(SubSeq(results, 1, Len(results) - 1)),
                   results[Len(results)].extracted_vars)

\* collect: "Get error info if failed"
RECURSIVE FirstError(_)
FirstError(results) ==
    IF results = <<>> THEN NoError
    ELSE IF Head(results).status = "failure" /\ Head(results).error_info /= NoError
         THEN Head(results).error_info
         ELSE FirstError(Tail(results))

collect(results) ==
    [ status |-> CaseStatus(results),
      total_steps |-> Len(results),
      passed_steps |-> Count(results, "success"),
      failed_steps |-> Count(results, "failure"),
      skipped_steps |-> Count(results, "skipped"),
      step_results |-> results,
      final_variables |-> FinalVariables(results),
      error_info |-> IF CaseStatus(results) = "failed" THEN FirstError(results) ELSE NoError ]

\* the keys absent from step_data are the empty values here
_format_step_result(sr) ==
    [ name |-> sr.name, status |-> sr.status, retry_count |-> sr.retry_count,
      response |-> _mask_sensitive_data(sr.response),
      extracted_vars |-> _mask_variables(sr.extracted_vars),
      validations |-> sr.validation_results,
      error_info |-> sr.error_info,
      variables_snapshot |-> _mask_variables(sr.variables_snapshot.extracted) ]

to_v2_json(r) ==
    [ test_case |-> [status |-> r.status],
      statistics |-> [total_steps |-> r.total_steps, passed_steps |-> r.passed_steps,
                      failed_steps |-> r.failed_steps, skipped_steps |-> r.skipped_steps],
      steps |-> [i \in 1..Len(r.step_results) |-> _format_step_result(r.step_results[i])],
      final_variables |-> _mask_variables(r.final_variables),
      error_info |-> r.error_info ]

-----------------------------------------------------------------------------
(* Template renderer (apisix/utils/template.py is not among the sources; it  *)
(* is modelled from section 4.1 of the specification)                        *)

k_flag == <<"f", "l", "a", "g">>

NoTemplate == [kind |-> "none", name |-> <<>>, text |-> ""]
Lit(text) == [kind |-> "lit", name |-> <<>>, text |-> text]
Var(name) == [kind |-> "var", name |-> name, text |-> ""]
BadTemplate == [kind |-> "bad", name |-> <<>>, text |-> ""]

IsLeaf(value) == DOMAIN value = {<<>>}

\* render_template(template, context): [raised, text]
render_template(template, context) ==
    CASE template.kind = "bad" -> [raised |-> TRUE, text |-> ""]
      [] template.kind = "lit" -> [raised |-> FALSE, text |-> template.text]
      [] template.kind = "var" ->
            LET value == Subtree(context, <<template.name>>)
            IN [raised |-> FALSE,
                text |-> IF value = EmptyDoc THEN ""
                         ELSE IF IsLeaf(value) THEN value[<<>>] ELSE "{...}"]
      [] OTHER -> [raised |-> FALSE, text |-> ""]

\* str.lower() on the texts the model renders
LowerText(text) ==
    CASE text = "True" -> "true"
      [] text = "YES" -> "yes"
      [] text = "False" -> "false"
      [] text = "JSONPath" -> "jsonpath"
      [] OTHER -> text

-----------------------------------------------------------------------------
(* VariableManager (core/variable_manager.py) *)

NewVariableManager ==
    [global_vars |-> EmptyDoc, profile_vars |-> EmptyDoc, extracted_vars |-> EmptyDoc]

get_all_variables(m) == DocUpdate(DocUpdate(m.global_vars, m.profile_vars), m.extracted_vars)

set_variable_in_profile_layer(m, name, value) ==
    [m EXCEPT !.profile_vars = DocSet(@, name, value)]

set_variable(m, name, value) == [m EXCEPT !.extracted_vars = DocSet(@, name, value)]

snapshot(m) ==
    [global |-> m.global_vars, profile |-> m.profile_vars, extracted |-> m.extracted_vars]

set_profile(m, profile_vars) == [m EXCEPT !.profile_vars = profile_vars]

get_variable_global_first(m, name, default) ==
    IF name \in TopKeys(m.global_vars) THEN Subtree(m.global_vars, <<name>>)
    ELSE IF name \in TopKeys(m.profile_vars) THEN Subtree(m.profile_vars, <<name>>)
    ELSE IF name \in TopKeys(m.extracted_vars) THEN Subtree(m.extracted_vars, <<name>>)
    ELSE default

get_variable(m, name, default) ==
    IF name \in TopKeys(m.extracted_vars) THEN Subtree(m.extracted_vars, <<name>>)
    ELSE IF name \in TopKeys(m.profile_vars) THEN Subtree(m.profile_vars, <<name>>)
    ELSE IF name \in TopKeys(m.global_vars) THEN Subtree(m.global_vars, <<name>>)
    ELSE default

clear_extracted(m) == [m EXCEPT !.extracted_vars = EmptyDoc]

\* restore_snapshot for a snapshot that has the three keys snapshot() writes
restore_snapshot(m, s) ==
    [m EXCEPT !.global_vars = s.global, !.profile_vars = s.profile,
              !.extracted_vars = s.extracted]

\* a string with a Jinja2 statement and no expression:
\* "{% if name %}text{% endif %}"
Stmt(name, text) == [kind |-> "stmt", name |-> name, text |-> text]

\* the text of a template as it is written
SourceText(template_str) ==
    CASE template_str.kind = "lit" -> template_str.text
      [] template_str.kind = "var" -> "{{name}}"
      [] template_str.kind = "bad" -> "{{"
      [] template_str.kind = "stmt" -> "{% if name %}text{% endif %}"
      [] OTHER -> ""

\* "{{" in template_str, "{%" in template_str
HasExpression(template_str) == template_str.kind \in {"var", "bad"}
HasStatement(template_str) == template_str.kind = "stmt"

\* self._jinja_env.from_string(template_str).render(**variables): an undefined
\* name renders as the empty string and is false in a statement
JinjaRender(template_str, context) ==
    CASE template_str.kind = "bad" -> [raised |-> TRUE, text |-> ""]
      [] template_str.kind = "stmt" ->
            [raised |-> FALSE,
             text |-> IF Subtree(context, <<template_str.name>>) \in {EmptyDoc, Leaf("")}
                      THEN "" ELSE template_str.text]
      [] OTHER ->
            [raised |-> FALSE,
             text |-> IF Subtree(context, <<template_str.name>>) = EmptyDoc THEN ""
                      ELSE IF IsLeaf(Subtree(context, <<template_str.name>>))
                      THEN Subtree(context, <<template_str.name>>)[<<>>] ELSE "{...}"]

\* the quick check of render_string: no template syntax in the string
QuickCheck(template_str) == ~HasExpression(template_str) /\ ~HasStatement(template_str)

\* render_string: [raised, text]; what is not a str, and a str without template
\* syntax, is returned as it is
render_string(m, template_str) ==
    IF template_str.kind = "none" \/ QuickCheck(template_str)
    THEN [raised |-> FALSE, text |-> SourceText(template_str)]
    ELSE JinjaRender(template_str, get_all_variables(m))

\* render_dict for a dict of strings: [raised, value]
render_dict(m, data) ==
    [ raised |-> \E k \in DOMAIN data : render_string(m, data[k]).raised,
      value |-> [k \in DOMAIN data |-> render_string(m, data[k]).text] ]

-----------------------------------------------------------------------------
(* Steps, rules, extractors, responses and exceptions of the model *)

NoRetry == <<>>

\* an optional number that is None
NoNumber == <<>>

\* TestStep(name, type) with the defaults of the dataclass
TestStep(name, type) ==
    [ name |-> name, type |-> type, url |-> Lit("http://api/login"),
      headers |-> NoTemplate, skip_if |-> NoTemplate, only_if |-> NoTemplate, depends_on |-> {},
      retry_times |-> NoRetry, timeout |-> NoNumber, setup |-> FALSE, teardown |-> FALSE,
      validations |-> <<>>, extractors |-> <<>>,
      seconds |-> NoNumber, condition |-> NoTemplate, interval |-> NoNumber,
      max_wait |-> NoNumber ]

StepKinds == {"request", "database", "wait", "loop", "concurrent", "script"}

RuleStatus200 ==
    [type |-> "status_code", path |-> <<k_status_code>>, expect |-> "200", description |-> "is 200"]
RuleTokenEq ==
    [type |-> "eq", path |-> <<k_token>>, expect |-> "abc", description |-> "has token"]

ExtractTok == [name |-> k_tok, type |-> "jsonpath", path |-> <<k_token>>]
ExtractToken == [name |-> k_token, type |-> "jsonpath", path |-> <<k_token>>]
ExtractIdAsTok == [name |-> k_tok, type |-> "jsonpath", path |-> <<k_id>>]
ExtractUser == [name |-> k_user, type |-> "jsonpath", path |-> <<k_user>>]
ExtractXml == [name |-> k_id, type |-> "xpath", path |-> <<k_id>>]

Envelope(code, body) == DocUpdate(Wrap(k_status_code, Leaf(code)), Wrap(k_body, body))

ResponseToken ==
    Envelope("200", DocUpdate(Wrap(k_token, Leaf("abc")), Wrap(k_apiKey, Leaf("k1"))))
ResponseUser ==
    Envelope("200", Wrap(k_user, DocUpdate(Wrap(k_password, Leaf("p")), Wrap(k_id, Leaf("1")))))
ResponseError == Envelope("500", Wrap(k_id, Leaf("1")))

Responses == {ResponseToken, ResponseUser, ResponseError}

\* what session.request can do: raise RequestException or deliver a response
IoOutcomes ==
    {[raised |-> TRUE, response |-> EmptyDoc]}
        \cup {[raised |-> FALSE, response |-> r] : r \in Responses}

\* an exception: its class name and the fragments of its message
Exception(type, message) == [type |-> type, message |-> message]

TemplateError == Exception("TemplateError", <<"Failed to render template">>)
HookError == Exception("ValueError", <<"hook failed">>)
RequestException == Exception("RequestException", <<"HTTP request failed: ", "connection refused">>)
AssertionError(description) == Exception("AssertionError", <<"Validation failed: ", description>>)
EngineError == Exception("Exception", <<"raised by the validation engine">>)
NoException == Exception("None", <<>>)

\* the words _create_error_info looks for, per message fragment (lowercased)
FragmentWords(text) ==
    CASE text = "Validation failed: " -> {"validation"}
      [] text = "connection refused" -> {"connection"}
      [] text = "Failed to render template" -> {}
      [] text = "Wait time exceeds timeout" -> {"timeout"}
      [] text = "Max wait time exceeds timeout" -> {"timeout"}
      [] text = "' did not become true within" -> {}
      [] OTHER -> {}

MessageHas(message, word) == \E i \in 1..Len(message) : word \in FragmentWords(message[i])

-----------------------------------------------------------------------------
(* ValidationEngine (validation/engine.py) with the comparators the rules use *)

\* the characters of the texts that reach a comparator
Chars(text) ==
    CASE text = "" -> <<>>
      [] text = "200" -> <<"2", "0", "0">>
      [] text = "204" -> <<"2", "0", "4">>
      [] text = "500" -> <<"5", "0", "0">>
      [] text = "2xx" -> <<"2", "x", "x">>
      [] text = "2XX" -> <<"2", "X", "X">>
      [] text = "1" -> <<"1">>
      [] text = "p" -> <<"p">>
      [] text = "k1" -> <<"k", "1">>
      [] text = "abc" -> <<"a", "b", "c">>
      [] OTHER -> <<"?">>

Digits == <<"0", "1", "2", "3", "4", "5", "6", "7", "8", "9">>

DigitValue(c) == (CHOOSE i \in 1..Len(Digits) : Digits[i] = c) - 1

\* int(s) and float(s) accept s: the decimal numerals
IsNumeric(s) == s /= <<>> /\ \A i \in 1..Len(s) : \E d \in 1..Len(Digits) : Digits[d] = s[i]

RECURSIVE ToInt(_)
ToInt(s) == IF s = <<>> THEN 0 ELSE 10 * ToInt(SubSeq(s, 1, Len(s) - 1)) + DigitValue(s[Len(s)])

\* the texts that are the integers of a response (status_code is an int; the
\* values of a body are strings)
Numerals == {"200", "204", "500"}

IsInt(value) == IsLeaf(value) /\ value[<<>>] \in Numerals

\* str.replace("xx", "")
RECURSIVE RemoveXX(_)
RemoveXX(s) ==
    IF Len(s) < 2 THEN s
    ELSE IF SubSeq(s, 1, 2) = <<"x", "x">> THEN RemoveXX(SubSeq(s, 3, Len(s)))
    ELSE <<Head(s)>> \o RemoveXX(Tail(s))

\* Comparators.eq: actual == expected; an int never equals the str of a rule
eq(actual, expected) ==
    [exc |-> "none", passed |-> IsLeaf(actual) /\ ~IsInt(actual) /\ actual[<<>>] = expected]

\* Comparators.gt: float(actual) > float(expected), ComparatorError otherwise
gt(actual, expected) ==
    IF IsLeaf(actual) /\ IsNumeric(Chars(actual[<<>>])) /\ IsNumeric(Chars(expected))
    THEN [exc |-> "none", passed |-> ToInt(Chars(actual[<<>>])) > ToInt(Chars(expected))]
    ELSE [exc |-> "ComparatorError", passed |-> FALSE]

\* str(n) for an integer
RECURSIVE IntStr(_)
IntStr(n) ==
    IF n < 0 THEN <<"-">> \o IntStr(0 - n)
    ELSE IF n < 10 THEN <<Digits[n + 1]>>
    ELSE IntStr(n \div 10) \o <<Digits[(n % 10) + 1]>>

StatusCodeCompare_last_digit(actual_code, expected) ==
    IF Contains(<<"x", "x">>, Lower(expected))
    THEN RemoveXX(Lower(expected)) = <<IntStr(actual_code)[Len(IntStr(actual_code))]>>
    ELSE IsNumeric(expected) /\ actual_code = ToInt(expected)

\* Comparators.status_code, lines 328-337, for actual_code = int(actual) and the
\* characters of str(expected); int(expected) raising ValueError gives False
StatusCodeCompare(actual_code, expected) ==
    IF Contains(<<"x", "x">>, Lower(expected))
    THEN RemoveXX(Lower(expected)) = <<IntStr(actual_code)[1]>>
    ELSE IsNumeric(expected) /\ actual_code = ToInt(expected)

\* Comparators.status_code: ValueError and TypeError give False
status_code(actual, expected) ==
    IF ~(IsLeaf(actual) /\ IsNumeric(Chars(actual[<<>>])))
    THEN [exc |-> "none", passed |-> FALSE]
    ELSE [ exc |-> "none",
           passed |-> StatusCodeCompare(ToInt(Chars(actual[<<>>])), Chars(expected)) ]

\* the static methods of the class Comparators
ComparatorNames ==
    { "eq", "ne", "gt", "lt", "ge", "le", "contains", "not_contains", "regex", "type",
      "in_list", "not_in_list", "length_eq", "length_gt", "length_lt", "is_empty",
      "is_null", "status_code", "exists", "between" }

\* attributes every class has
ObjectAttributes == {"__doc__", "__class__", "__init__", "__eq__"}

NoAttribute == [kind |-> "None", name |-> ""]

\* getattr(Comparators, name, None)
GetAttr(name) ==
    IF name \in ComparatorNames THEN [kind |-> "comparator", name |-> name]
    ELSE IF name \in ObjectAttributes THEN [kind |-> "object", name |-> name]
    ELSE NoAttribute

\* get_comparator(name): ComparatorError for a name Comparators does not have
get_comparator(name) == IF GetAttr(name) = NoAttribute THEN "ComparatorError" ELSE "none"

\* comparator(actual, expect) for the function get_comparator returned
Comparator(type, actual, expect) ==
    CASE type = "status_code" -> status_code(actual, expect)
      [] type = "gt" -> gt(actual, expect)
      [] OTHER -> eq(actual, expect)

\* the path of the rule: validation.get("path", "$")
NoPath == <<<<>>>>
RootPath == <<>>
BadPath == <<<<"[">>>>

RulePath(validation) == IF validation.path = NoPath THEN RootPath ELSE validation.path

\* _extract_value: ValueError when jsonpath finds nothing or rejects the path
_extract_value(path, data) ==
    IF path = BadPath \/ Subtree(data, path) = EmptyDoc
    THEN [exc |-> "ValueError", value |-> EmptyDoc]
    ELSE [exc |-> "none", value |-> Subtree(data, path)]

\* _generate_error_message builds the message of every comparator before it
\* picks one: len(actual) raises TypeError for an int, expected[1] raises
\* IndexError for a text of fewer than two characters
_generate_error_message(val_type, actual, expected) ==
    IF IsInt(actual) THEN [exc |-> "TypeError", text |-> ""]
    ELSE IF Len(Chars(expected)) < 2 THEN [exc |-> "IndexError", text |-> ""]
    ELSE [ exc |-> "none",
           text |-> CASE val_type = "eq" -> "Expected but got"
                      [] val_type = "gt" -> "Expected > but failed"
                      [] val_type = "status_code" -> "Expected status code"
                      [] OTHER -> "Validation failed" ]

\* how the try block of _validate_single ends: with an exception (exc), or with
\* the values the record is built from
Raised(exc) == [exc |-> exc, actual |-> EmptyDoc, passed |-> FALSE, error |-> ""]
Returned(actual, passed, error) ==
    [exc |-> "none", actual |-> actual, passed |-> passed, error |-> error]

\* lines 132-135: the message of a failed comparison
TryMessage(actual, msg) ==
    IF msg.exc /= "none" THEN Raised(msg.exc) ELSE Returned(actual, FALSE, msg.text)

\* lines 126-135: comparator lookup, comparison, message
TryCompare(validation, actual, found, cmp) ==
    IF found /= "none" THEN Raised(found)
    ELSE IF cmp.exc /= "none" THEN Raised(cmp.exc)
    ELSE IF cmp.passed THEN Returned(actual, TRUE, "")
    ELSE TryMessage(actual,
                    _generate_error_message(validation.type, actual, validation.expect))

\* lines 123-124: path resolution
TryExtract(validation, ex) ==
    IF ex.exc /= "none" THEN Raised(ex.exc)
    ELSE TryCompare(validation, ex.value, get_comparator(validation.type),
                    Comparator(validation.type, ex.value, validation.expect))

\* the try block of _validate_single
TryValidate(validation, response_data) ==
    TryExtract(validation, _extract_value(RulePath(validation), response_data))

ExceptionClasses == {"ComparatorError", "ValueError", "TypeError", "IndexError"}

ExceptClause_comparator_errors_only(exc) ==
    IF exc = "ComparatorError" THEN "Comparator error" ELSE "uncaught"

\* the except clause of _validate_single an exception class is caught by
ExceptClause(exc) ==
    IF exc = "ComparatorError" THEN "Comparator error"
    ELSE IF exc \in ExceptionClasses THEN "Validation error"
    ELSE "uncaught"

\* the ValidationResult of a rule whose try block ended as t, in the handler h
ValidationResult(validation, t, h) ==
    [ raised |-> t.exc /= "none" /\ h = "uncaught",
      result |-> [ passed |-> t.passed, type |-> validation.type,
                   path |-> RulePath(validation), actual |-> t.actual,
                   expected |-> validation.expect,
                   description |-> validation.description,
                   error |-> IF t.exc = "none" THEN t.error ELSE h ] ]

\* _validate_single: [raised, result]
_validate_single(validation, response_data) ==
    ValidationResult(validation, TryValidate(validation, response_data),
                     ExceptClause(TryValidate(validation, response_data).exc))

\* the outcome of validate for the outcomes of its calls of _validate_single
Results(singles) ==
    [ raised |-> \E i \in 1..Len(singles) : singles[i].raised,
      results |-> [i \in 1..Len(singles) |-> singles[i].result] ]

\* validate: [raised, results]
validate(validations, response_data) ==
    Results([i \in 1..Len(validations) |-> _validate_single(validations[i], response_data)])

-----------------------------------------------------------------------------
(* StepExecutor (executor/step_executor.py) *)

BackoffCap == 10

EffectiveRetry(step_retry, retry_times) ==
    IF step_retry = NoRetry \/ step_retry[1] = 0 THEN retry_times ELSE step_retry[1]

\* step.timeout or timeout
EffectiveTimeout(step_timeout, timeout) ==
    IF step_timeout = NoNumber \/ step_timeout[1] = 0 THEN timeout ELSE step_timeout[1]

DefaultTimeout == 30

\* StepExecutor.__init__; kind names the subclass that is constructed
StepExecutor(step, timeout, retry_times, previous_results) ==
    [ kind |-> "abstract", step |-> step,
      timeout |-> EffectiveTimeout(step.timeout, timeout),
      retry_times |-> EffectiveRetry(step.retry_times, retry_times),
      previous_results |-> previous_results ]

NoExecutor == StepExecutor(TestStep("None", "None"), DefaultTimeout, 0, <<>>)

\* the first result of previous_results with the name, as the inner for loop finds it
DependencySucceeded(previous_results, dep) ==
    \E i \in 1..Len(previous_results) :
        /\ previous_results[i].name = dep
        /\ \A j \in 1..(i - 1) : previous_results[j].name /= dep
        /\ previous_results[i].status = "success"

TrueTexts == {"true", "1", "yes"}

_should_execute_missing_dependency_runs(step, m, previous_results) ==
    LET context == get_all_variables(m)
        skip == render_template(step.skip_if, context)
        only == render_template(step.only_if, context)
    IN IF step.skip_if /= NoTemplate /\ skip.raised THEN "raise"
       ELSE IF step.skip_if /= NoTemplate /\ skip.text /= "" /\ LowerText(skip.text) \in TrueTexts
            THEN "skip"
       ELSE IF step.only_if /= NoTemplate /\ only.raised THEN "raise"
       ELSE IF step.only_if /= NoTemplate /\ only.text /= "" /\ LowerText(only.text) \notin TrueTexts
            THEN "skip"
       ELSE IF \E dep \in step.depends_on :
                 /\ \E i \in 1..Len(previous_results) : previous_results[i].name = dep
                 /\ ~DependencySucceeded(previous_results, dep)
            THEN "skip"
       ELSE "run"

\* "run", "skip", or "raise" when rendering a condition raises
_should_execute(step, m, previous_results) ==
    LET context == get_all_variables(m)
        skip == render_template(step.skip_if, context)
        only == render_template(step.only_if, context)
    IN IF step.skip_if /= NoTemplate /\ skip.raised THEN "raise"
       ELSE IF step.skip_if /= NoTemplate /\ skip.text /= "" /\ LowerText(skip.text) \in TrueTexts
            THEN "skip"
       ELSE IF step.only_if /= NoTemplate /\ only.raised THEN "raise"
       ELSE IF step.only_if /= NoTemplate /\ only.text /= "" /\ LowerText(only.text) \notin TrueTexts
            THEN "skip"
       ELSE IF \E dep \in step.depends_on : ~DependencySucceeded(previous_results, dep)
            THEN "skip"
       ELSE "run"

\* the rendered dictionary for the renderings of the url and of the headers
Rendered(step, url, headers) ==
    [ raised |-> url.raised \/ (step.headers /= NoTemplate /\ headers.raised),
      url |-> url.text,
      headers |-> IF step.headers = NoTemplate THEN "" ELSE headers.text,
      validations |-> step.validations ]

_render_step(step, m) ==
    Rendered(step, render_template(step.url, get_all_variables(m)),
             render_string(m, step.headers))

_create_error_info(e) ==
    [ type |-> e.type,
      category |->
          IF e.type = "AssertionError" \/ MessageHas(e.message, "validation") THEN "assertion"
          ELSE IF MessageHas(e.message, "timeout") THEN "timeout"
          ELSE IF MessageHas(e.message, "connection") \/ MessageHas(e.message, "network")
               THEN "network"
          ELSE IF MessageHas(e.message, "parse") THEN "parsing"
          ELSE "system",
      message |-> e.message ]

\* ExtractorFactory.create_extractor and the extractor (the extractor classes are
\* not among the sources: section 4.4 of the specification); EmptyDoc is None
ExtractorTypes == {"jsonpath", "regex", "header", "cookie"}

\* ExtractorFactory.create_extractor raises ValueError for an unsupported type
create_extractor(extractor_type) ==
    [raised |-> LowerText(extractor_type) \notin ExtractorTypes]

\* create_extractor and extractor.extract: [raised, value]; the extractor raises
\* for a path it cannot compile
Extract(extractor_def, response) ==
    IF create_extractor(extractor_def.type).raised \/ extractor_def.path = BadPath
    THEN [raised |-> TRUE, value |-> EmptyDoc]
    ELSE [raised |-> FALSE,
          value |-> Subtree(Subtree(response, <<k_body>>), extractor_def.path)]

Remaining_none_after_a_failure(extractors, extracted) ==
    IF extracted THEN Tail(extractors) ELSE <<>>

\* the extractors the for loop still runs after one of them: the except clause
\* and a None value both go on with the next extractor
Remaining(extractors, extracted) == Tail(extractors)

RECURSIVE ExtractEach(_, _, _)
ExtractEach(extractors, m, res) ==
    IF extractors = <<>> THEN [vm |-> m, result |-> res]
    ELSE LET value == Extract(Head(extractors), res.response).value
             name == Head(extractors).name
         IN IF ~Extract(Head(extractors), res.response).raised /\ value /= EmptyDoc
            THEN ExtractEach(Remaining(extractors, TRUE), set_variable(m, name, value),
                             [res EXCEPT !.extracted_vars = DocSet(@, name, value)])
            ELSE ExtractEach(Remaining(extractors, FALSE), m, res)

_extract_variables_without_commit(step, m, res) ==
    IF step.extractors = <<>> \/ res.response = EmptyDoc THEN [vm |-> m, result |-> res]
    ELSE [vm |-> m, result |-> ExtractEach(step.extractors, m, res).result]

_extract_variables(step, m, res) ==
    IF step.extractors = <<>> \/ res.response = EmptyDoc THEN [vm |-> m, result |-> res]
    ELSE ExtractEach(step.extractors, m, res)

-----------------------------------------------------------------------------
(* APIExecutor (executor/api_executor.py) *)

APIExecutor(step, retry_times) ==
    [StepExecutor(step, DefaultTimeout, retry_times, <<>>) EXCEPT !.kind = "api"]

\* the attributes of the StepResult object APIExecutor._execute_step returns
StepResultAttrs == {"response", "extracted_vars", "performance", "validation_results"}

\* APIExecutor._execute_step: [raised, exc, response, validation_results, evaluated]
api_execute_step(rendered, outcome) ==
    IF outcome.raised
    THEN [ raised |-> TRUE, exc |-> RequestException, response |-> EmptyDoc,
           validation_results |-> <<>>, evaluated |-> 0 ]
    ELSE LET response_data == outcome.response
             IsStatusRule(val) == val.type = "status_code"
             IsBodyRule(val) == val.type /= "status_code"
             body == Subtree(response_data, <<k_body>>)
             validation_data == IF body /= EmptyDoc THEN body ELSE response_data
             status_code_results ==
                 validate(SelectSeq(rendered.validations, IsStatusRule), response_data)
             body_results ==
                 validate(SelectSeq(rendered.validations, IsBodyRule), validation_data)
             validation_results == status_code_results.results \o body_results.results
             failed == {i \in 1..Len(validation_results) : ~validation_results[i].passed}
             first == CHOOSE i \in failed : \A j \in failed : i <= j
         IN IF status_code_results.raised \/ body_results.raised
            THEN [ raised |-> TRUE, exc |-> EngineError, response |-> EmptyDoc,
                   validation_results |-> <<>>, evaluated |-> Len(validation_results) ]
            ELSE IF failed /= {}
            THEN [ raised |-> TRUE,
                   exc |-> AssertionError(validation_results[first].description),
                   response |-> EmptyDoc, validation_results |-> <<>>,
                   evaluated |-> Len(validation_results) ]
            ELSE [ raised |-> FALSE, exc |-> NoException, response |-> response_data,
                   validation_results |-> validation_results,
                   evaluated |-> Len(validation_results), attrs |-> StepResultAttrs ]

-----------------------------------------------------------------------------
(* WaitExecutor (executor/wait_executor.py); durations are whole numbers *)

DefaultWaitTimeout == 300
DefaultInterval == 1
DefaultMaxWait == 60

k_wait_type == <<"w", "a", "i", "t", "_", "t", "y", "p", "e">>

WaitExecutor(step, timeout, retry_times, previous_results) ==
    [StepExecutor(step, timeout, retry_times, previous_results) EXCEPT !.kind = "wait"]

ValueError(text) == Exception("ValueError", <<text>>)
TimeoutError(condition) ==
    Exception("TimeoutError", <<"Condition '", condition, "' did not become true within">>)

\* the rendered dictionary of a wait step for the rendering of its condition;
\* str() of a number has no template marker and renders to itself
WaitRendered(step, condition) ==
    [ raised |-> step.condition /= NoTemplate /\ condition.raised,
      url |-> "", headers |-> "", validations |-> <<>>,
      seconds |-> step.seconds,
      condition |-> IF step.condition = NoTemplate THEN "" ELSE condition.text,
      interval |-> step.interval, max_wait |-> step.max_wait ]

\* WaitExecutor._render_step
wait_render_step(step, m) ==
    WaitRendered(step, render_template(step.condition, get_all_variables(m)))

\* a dict _execute_step returns: it has keys, no attributes
WaitResult(response, poll_count) ==
    [ raised |-> FALSE, exc |-> NoException, response |-> response,
      validation_results |-> <<>>, evaluated |-> 0, attrs |-> {}, poll_count |-> poll_count ]

WaitRaise(exc, poll_count) ==
    [ raised |-> TRUE, exc |-> exc, response |-> EmptyDoc,
      validation_results |-> <<>>, evaluated |-> 0, poll_count |-> poll_count ]

_fixed_wait(timeout, wait_seconds) ==
    IF wait_seconds < 0 THEN WaitRaise(ValueError("Wait seconds must be non-negative"), 0)
    ELSE IF wait_seconds > timeout THEN WaitRaise(ValueError("Wait time exceeds timeout"), 0)
    ELSE WaitResult(Wrap(k_wait_type, Leaf("fixed")), 0)

WaitTrueTexts == {"true", "1", "yes", "y", "ok", "success"}

_is_condition_true(rendered_condition) ==
    rendered_condition /= "" /\ LowerText(rendered_condition) \in WaitTrueTexts

\* the poll loop: the number of polls when it ends, and whether it ended
\* because elapsed reached max_wait; the rendered condition is a plain text and
\* renders to itself at every poll
RECURSIVE PollLoop(_, _, _, _, _)
PollLoop(condition, interval, max_wait, elapsed, poll_count) ==
    IF elapsed < max_wait
    THEN IF _is_condition_true(condition)
         THEN [timed_out |-> FALSE, poll_count |-> poll_count + 1]
         ELSE PollLoop(condition, interval, max_wait, elapsed + interval, poll_count + 1)
    ELSE [timed_out |-> TRUE, poll_count |-> poll_count]

\* the end of _conditional_wait for the outcome of its poll loop
Polled(condition, loop) ==
    IF loop.timed_out THEN WaitRaise(TimeoutError(condition), loop.poll_count)
    ELSE WaitResult(Wrap(k_wait_type, Leaf("conditional")), loop.poll_count)

_conditional_wait(timeout, condition, interval, max_wait) ==
    IF interval <= 0 THEN WaitRaise(ValueError("Polling interval must be positive"), 0)
    ELSE IF max_wait <= 0 THEN WaitRaise(ValueError("Maximum wait time must be positive"), 0)
    ELSE IF max_wait > timeout THEN WaitRaise(ValueError("Max wait time exceeds timeout"), 0)
    ELSE Polled(condition, PollLoop(condition, interval, max_wait, 0, 0))

\* rendered_step.get(key, default) for a number
GetNumber(value, default) == IF value = NoNumber THEN default ELSE value[1]

\* WaitExecutor._execute_step
wait_execute_step(timeout, rendered) ==
    IF rendered.condition /= ""
    THEN _conditional_wait(timeout, rendered.condition,
                           GetNumber(rendered.interval, DefaultInterval),
                           GetNumber(rendered.max_wait, DefaultMaxWait))
    ELSE IF rendered.seconds /= NoNumber
    THEN _fixed_wait(timeout, rendered.seconds[1])
    ELSE WaitRaise(ValueError("Wait step must have either 'seconds' or 'condition'"), 0)

-----------------------------------------------------------------------------
(* float: IEEE 754 binary64 with round-to-nearest-even, for the non-negative *)
(* finite values the poll loop of _conditional_wait computes. A natural      *)
(* number is a sequence of bits, most significant first; a float is          *)
(* [neg, m, e] with m the 53 bits of the significand (<<>> for zero) and     *)
(* value m * 2^e.                                                            *)

Precision == 53

Zeros(n) == [i \in 1..n |-> 0]

\* the bits without their leading zeros
Strip(bits) ==
    IF \A i \in 1..Len(bits) : bits[i] = 0 THEN <<>>
    ELSE SubSeq(bits, CHOOSE i \in 1..Len(bits) :
                        bits[i] = 1 /\ \A j \in 1..(i - 1) : bits[j] = 0, Len(bits))

RECURSIVE ToBits(_)
ToBits(n) == IF n = 0 THEN <<>> ELSE Append(ToBits(n \div 2), n % 2)

PadLeft(bits, n) == Zeros(n - Len(bits)) \o bits

\* the carry into bit i of the sum of two bit sequences of length n: some lower
\* bit generates a carry and every bit between propagates it
Carry(a, b, n, i) ==
    \E j \in (i + 1)..n :
        a[j] + b[j] = 2 /\ \A k \in (i + 1)..(j - 1) : a[k] + b[k] = 1

SumBits(a, b, n) ==
    [i \in 1..(n + 1) |->
        IF i = 1 THEN (IF Carry(a, b, n, 0) THEN 1 ELSE 0)
        ELSE (a[i - 1] + b[i - 1] + (IF Carry(a, b, n, i - 1) THEN 1 ELSE 0)) % 2]

\* the sum of two bit sequences of at most n bits, in n + 1 bits
AddBits(a, b, n) == SumBits(PadLeft(a, n), PadLeft(b, n), n)

Max(a, b) == IF a >= b THEN a ELSE b
Min(a, b) == IF a <= b THEN a ELSE b

Zero == [neg |-> FALSE, m |-> <<>>, e |-> 0]

\* the float of the rounded significand: a carry out of the 53 bits leaves 1000...0
Rounded(neg, m, e) ==
    IF Len(m) > Precision THEN [neg |-> neg, m |-> SubSeq(m, 1, Precision), e |-> e + 1]
    ELSE [neg |-> neg, m |-> m, e |-> e]

\* the nearest float to bits * 2^e (bits without leading zeros), ties to even;
\* sticky tells that the exact value has non-zero bits below those given
Round(neg, bits, e, sticky) ==
    IF bits = <<>> THEN Zero
    ELSE IF Len(bits) <= Precision
    THEN [neg |-> neg, m |-> bits \o Zeros(Precision - Len(bits)),
          e |-> e - (Precision - Len(bits))]
    ELSE IF /\ bits[Precision + 1] = 1
            /\ \/ sticky
               \/ \E i \in (Precision + 2)..Len(bits) : bits[i] = 1
               \/ bits[Precision] = 1
    THEN Rounded(neg, Strip(AddBits(SubSeq(bits, 1, Precision), <<1>>, Precision)),
                 e + (Len(bits) - Precision))
    ELSE [neg |-> neg, m |-> SubSeq(bits, 1, Precision), e |-> e + (Len(bits) - Precision)]

\* long division of the bits of n, followed by zeros, by d: the quotient bits q
\* after i - 1 steps and the remainder, until 54 significant bits are known
RECURSIVE Quotient(_, _, _, _, _)
Quotient(bits, d, i, rem, q) ==
    IF i > Len(bits) /\ Len(q) > Precision THEN [q |-> q, rem |-> rem, e |-> Len(bits) - (i - 1)]
    ELSE LET r2 == 2 * rem + (IF i <= Len(bits) THEN bits[i] ELSE 0)
         IN Quotient(bits, d, i + 1, IF r2 >= d THEN r2 - d ELSE r2,
                     IF q = <<>> /\ r2 < d THEN <<>> ELSE Append(q, IF r2 >= d THEN 1 ELSE 0))

FloatOfQuotient(neg, quotient) == Round(neg, quotient.q, quotient.e, quotient.rem /= 0)

\* a decimal literal n / 10^k of the test case
Dec(n, k) == [n |-> n, k |-> k]

\* float(text) of the text of a decimal literal: the nearest binary64
float(dec) ==
    IF dec.n = 0 THEN Zero
    ELSE FloatOfQuotient(dec.n < 0,
                         Quotient(ToBits(IF dec.n < 0 THEN -dec.n ELSE dec.n), 10 ^ dec.k, 1, 0, <<>>))

\* a < b for non-negative floats
FloatLess(a, b) ==
    IF b.m = <<>> THEN FALSE
    ELSE IF a.m = <<>> THEN TRUE
    ELSE \/ a.e < b.e
         \/ /\ a.e = b.e
            /\ \E i \in 1..Precision : a.m[i] < b.m[i] /\ \A j \in 1..(i - 1) : a.m[j] = b.m[j]

\* the exact sum of two significands aligned at exponent e, rounded
FloatSum(a_bits, b_bits, e) ==
    Round(FALSE, Strip(AddBits(a_bits, b_bits, Max(Len(a_bits), Len(b_bits)))), e, FALSE)

\* a + b for non-negative floats
FloatAdd(a, b) ==
    IF a.m = <<>> THEN b
    ELSE IF b.m = <<>> THEN a
    ELSE FloatSum(a.m \o Zeros(a.e - Min(a.e, b.e)), b.m \o Zeros(b.e - Min(a.e, b.e)),
                  Min(a.e, b.e))

-----------------------------------------------------------------------------
(* StepExecutor.execute, one action per stage of the lifecycle *)

FreshTrace ==
    [ gate |-> "none", setup_called |-> FALSE, attempts |-> 0, requests |-> 0,
      evaluated |-> 0, sleeps |-> <<>>, teardown_called |-> FALSE, exc |-> NoException,
      headers |-> "", response |-> EmptyDoc, step_returned |-> FALSE ]

\* execute, lines 73-81: the pending result with the snapshot of the variables
PendingResult(step, m) ==
    [StepResult(step.name, "pending") EXCEPT !.variables_snapshot = snapshot(m)]

Backoff_uncapped(n) == 2 ^ n

\* min(2**attempt, 10)
Backoff(n) == IF 2 ^ n < BackoffCap THEN 2 ^ n ELSE BackoffCap

Caught_teardown_outside_try(stage) == stage /= "teardown"

\* the try block of execute encloses the gate, the setup hook, the retry loop
\* and the teardown hook
Caught(stage) == stage \in {"gate", "setup", "attempt", "teardown"}

\* except Exception as e: ... and the end of execute
Fail(res, e) ==
    [res EXCEPT !.status = "failure", !.error_info = _create_error_info(e), !.end_time = TRUE]

Raise(res, stage, e) ==
    IF Caught(stage)
    THEN result' = Fail(res, e) /\ pc' = "returned"
    ELSE result' = res /\ pc' = "raised"

\* if not self._should_execute(): ... return result
Gate ==
    /\ pc = "gate"
    /\ LET g == _should_execute(executor.step, vm, executor.previous_results)
       IN /\ trace' = [trace EXCEPT !.gate = g,
                                    !.exc = IF g = "raise" THEN TemplateError ELSE @]
          /\ CASE g = "raise" -> Raise(result, "gate", TemplateError)
               [] g = "skip" ->
                    /\ result' = [result EXCEPT !.status = "skipped", !.end_time = TRUE]
                    /\ pc' = "returned"
               [] OTHER -> result' = result /\ pc' = "setup"
    /\ UNCHANGED <<heap, call, ret, test_case, cur, step_results, report, vm, executor, attempt>>

\* self._execute_setup(); the hook collaborator may raise
Setup ==
    /\ pc = "setup"
    /\ \E hook_raises \in (IF executor.step.setup THEN BOOLEAN ELSE {FALSE}) :
          /\ trace' = [trace EXCEPT !.setup_called = TRUE,
                                    !.exc = IF hook_raises THEN HookError ELSE @]
          /\ IF hook_raises
             THEN Raise(result, "setup", HookError)
             ELSE result' = result /\ pc' = "attempt"
    /\ attempt' = 0
    /\ UNCHANGED <<heap, call, ret, test_case, cur, step_results, report, vm, executor>>

\* self._render_step(), as the subclass of the executor defines it
RenderStep(e, m) ==
    IF e.kind = "wait" THEN wait_render_step(e.step, m) ELSE _render_step(e.step, m)

\* self._execute_step(rendered_step), as the subclass of the executor defines it
ExecuteStep(e, rendered, outcome) ==
    IF rendered.raised
    THEN [ raised |-> TRUE, exc |-> TemplateError, response |-> EmptyDoc,
           validation_results |-> <<>>, evaluated |-> 0 ]
    ELSE IF e.kind = "wait" THEN wait_execute_step(e.timeout, rendered)
    ELSE api_execute_step(rendered, outcome)

\* lines 106-114: the attributes of the returned object are copied to the result
Merge(res, step_result) ==
    [res EXCEPT !.status = "success",
                !.response = IF "response" \in step_result.attrs
                             THEN step_result.response ELSE @,
                !.validation_results = IF "validation_results" \in step_result.attrs
                                       THEN step_result.validation_results ELSE @]

\* one iteration of "for attempt in range(self.retry_times + 1)", or the exit
\* of the loop when the range is exhausted
Attempt ==
    /\ pc = "attempt"
    /\ IF attempt > executor.retry_times
       THEN /\ pc' = "teardown"
            /\ UNCHANGED <<result, vm, attempt, trace>>
       ELSE \E outcome \in IoOutcomes :
              LET res1 == IF attempt > 0 THEN [result EXCEPT !.retry_count = attempt]
                          ELSE result
                  rendered == RenderStep(executor, vm)
                  sr == ExecuteStep(executor, rendered, outcome)
                  merged == Merge(res1, sr)
                  ex == _extract_variables(executor.step, vm, merged)
                  tr == [trace EXCEPT !.attempts = @ + 1,
                                      !.requests = IF rendered.raised \/ executor.kind /= "api"
                                                   THEN @ ELSE @ + 1,
                                      !.evaluated = sr.evaluated,
                                      !.headers = rendered.headers,
                                      !.step_returned = ~sr.raised,
                                      !.response = IF rendered.raised \/ executor.kind /= "api"
                                                   THEN @ ELSE outcome.response]
              IN IF ~sr.raised
                 THEN /\ result' = [ex.result EXCEPT !.end_time = TRUE]
                      /\ vm' = ex.vm
                      /\ pc' = "teardown"
                      /\ attempt' = attempt
                      /\ trace' = tr
                 ELSE IF attempt < executor.retry_times
                 THEN /\ result' = res1
                      /\ pc' = "attempt"
                      /\ attempt' = attempt + 1
                      /\ trace' = [tr EXCEPT !.sleeps = Append(@, Backoff(attempt))]
                      /\ vm' = vm
                 ELSE /\ Raise(res1, "attempt", sr.exc)
                      /\ trace' = [tr EXCEPT !.exc = sr.exc]
                      /\ UNCHANGED <<vm, attempt>>
    /\ UNCHANGED <<heap, call, ret, test_case, cur, step_results, report, executor>>

\* self._execute_teardown(); the hook collaborator may raise
Teardown ==
    /\ pc = "teardown"
    /\ \E hook_raises \in (IF executor.step.teardown THEN BOOLEAN ELSE {FALSE}) :
          /\ trace' = [trace EXCEPT !.teardown_called = TRUE,
                                    !.exc = IF hook_raises THEN HookError ELSE @]
          /\ IF hook_raises
             THEN Raise(result, "teardown", HookError)
             ELSE result' = [result EXCEPT !.end_time = TRUE] /\ pc' = "returned"
    /\ UNCHANGED <<heap, call, ret, test_case, cur, step_results, report, vm, executor, attempt>>

-----------------------------------------------------------------------------
(* TestCaseExecutor (executor/test_case_executor.py) *)

k_config == <<"c", "o", "n", "f", "i", "g">>
k_variables == <<"v", "a", "r", "i", "a", "b", "l", "e", "s">>
k_name == <<"n", "a", "m", "e">>

k_profiles == <<"p", "r", "o", "f", "i", "l", "e", "s">>
k_dev == <<"d", "e", "v">>
k_prod == <<"p", "r", "o", "d">>

NoProfile == <<>>

\* GlobalConfig without profiles
Config(retry_times, variables) ==
    [ name |-> "suite", retry_times |-> retry_times, variables |-> variables,
      active_profile |-> NoProfile, profiles |-> EmptyDoc, timeout |-> DefaultTimeout ]

k_active_profile ==
    <<"a", "c", "t", "i", "v", "e", "_", "p", "r", "o", "f", "i", "l", "e">>
k_timeout == <<"t", "i", "m", "e", "o", "u", "t">>
k_retry_times == <<"r", "e", "t", "r", "y", "_", "t", "i", "m", "e", "s">>

\* the text of a number and of a profile name of the model
NumText(n) ==
    CASE n = 0 -> "0"
      [] n = 1 -> "1"
      [] n = 2 -> "2"
      [] n = DefaultTimeout -> "30"
      [] OTHER -> "n"

NameText(name) ==
    CASE name = k_dev -> "dev"
      [] name = k_prod -> "prod"
      [] OTHER -> "None"

\* the dict literal of _initialize_variables, lines 80-89, without "profiles"
ConfigLiteral(config) ==
    DocUpdate(DocUpdate(DocUpdate(DocUpdate(Wrap(k_name, Leaf(config.name)),
                                            Wrap(k_active_profile,
                                                 Leaf(NameText(config.active_profile)))),
                                  Wrap(k_variables, config.variables)),
                        Wrap(k_timeout, Leaf(NumText(config.timeout)))),
              Wrap(k_retry_times, Leaf(NumText(config.retry_times))))

\* GlobalConfig with the profile dev, which is the active one
ConfigWithProfile(retry_times, variables, profile_variables) ==
    [ Config(retry_times, variables) EXCEPT
          !.active_profile = k_dev,
          !.profiles = Wrap(k_dev, Wrap(k_variables, profile_variables)) ]

\* _initialize_variables: the config map and the global variables
_initialize_variables(m, config) ==
    [m EXCEPT !.global_vars =
        DocUpdate(Wrap(k_config,
                       DocUpdate(ConfigLiteral(config), Wrap(k_profiles, config.profiles))),
                  config.variables)]

\* _setup_profile: the variables of the active profile become the profile layer
_setup_profile(m, config) ==
    IF config.active_profile = NoProfile \/ config.profiles = EmptyDoc THEN m
    ELSE IF Subtree(config.profiles, <<config.active_profile>>) = EmptyDoc THEN m
    ELSE set_profile(m, Subtree(config.profiles, <<config.active_profile, k_variables>>))

\* execute, lines 47-57: variables, profile, global setup
Start ==
    /\ pc = "init"
    /\ vm' = _setup_profile(_initialize_variables(vm, test_case.config), test_case.config)
    /\ step_results' = <<>>
    /\ cur' = 1
    /\ pc' = "loop"
    /\ UNCHANGED <<heap, call, ret, test_case, report, executor, result, attempt, trace>>

\* the step types _execute_step creates an executor for
DispatchKinds == {"request"}

\* _execute_step: the executor for the step, or ValueError; then executor.execute()
\* up to the gate
Dispatch ==
    /\ pc = "loop"
    /\ cur <= Len(test_case.steps)
    /\ LET step == test_case.steps[cur]
       IN IF step.type \in DispatchKinds
          THEN /\ executor' = APIExecutor(step, test_case.config.retry_times)
               /\ result' = PendingResult(step, vm)
               /\ trace' = FreshTrace
               /\ attempt' = 0
               /\ pc' = "gate"
          ELSE /\ pc' = "raised"
               /\ UNCHANGED <<executor, result, trace, attempt>>
    /\ UNCHANGED <<heap, call, ret, test_case, cur, step_results, report, vm>>

AfterFailure_stops(res) == IF res.status = "failure" THEN Len(test_case.steps) + 1 ELSE cur + 1

\* execute, lines 62-66: the step the loop goes on with after a result
AfterFailure(res) == cur + 1

\* step_results.append(step_result)
AppendResult ==
    /\ pc = "returned"
    /\ step_results' = Append(step_results, result)
    /\ cur' = AfterFailure(result)
    /\ pc' = "loop"
    /\ UNCHANGED <<heap, call, ret, test_case, report, vm, executor, result, attempt, trace>>

\* the end of the for loop; global teardown does nothing
LoopExit ==
    /\ pc = "loop"
    /\ cur > Len(test_case.steps)
    /\ pc' = "collect"
    /\ UNCHANGED <<heap, call, ret, test_case, cur, step_results, report, vm, executor, result, attempt, trace>>

\* return self.result_collector.to_v2_json(self.result_collector.collect(...))
CollectResults ==
    /\ pc = "collect"
    /\ report' = to_v2_json(collect(step_results))
    /\ pc' = "done"
    /\ UNCHANGED <<heap, call, ret, test_case, cur, step_results, vm, executor, result, attempt, trace>>

-----------------------------------------------------------------------------
(* Specifications *)

FlagTrue == Wrap(k_flag, Leaf("True"))
FlagFalse == Wrap(k_flag, Leaf("false"))

FlagYes == Wrap(k_flag, Leaf("yes"))
ProfileTok == Wrap(k_tok, Leaf("k1"))

Configs == {Config(0, FlagTrue), ConfigWithProfile(1, FlagFalse, ProfileTok)}

NoTestCase == [config |-> Config(0, EmptyDoc), steps |-> <<>>]

\* the steps of the test cases: request steps with step controls, request steps
\* that extract variables and send one in a header, and one plain step of every
\* other kind
CaseStepsAt(i) ==
    { [TestStep(StepNames[i], "request") EXCEPT
          !.depends_on = d, !.skip_if = c, !.validations = <<RuleStatus200>>]
        : d \in SUBSET {StepNames[j] : j \in 1..(i - 1)},
          c \in {NoTemplate, Var(k_flag), BadTemplate} }
      \cup { [TestStep(StepNames[i], "request") EXCEPT !.headers = x[1], !.extractors = x[2]]
              : x \in { <<NoTemplate, <<ExtractUser>>>>, <<NoTemplate, <<ExtractTok>>>>,
                        <<NoTemplate, <<ExtractToken>>>>,
                        <<Var(k_tok), <<ExtractIdAsTok>>>> } }
      \cup { [TestStep(StepNames[i], kind) EXCEPT
                  !.seconds = IF kind = "wait" THEN <<1>> ELSE NoNumber]
              : kind \in StepKinds \ {"request"} }
      \cup { [TestStep(StepNames[i], "request") EXCEPT !.retry_times = r]
              : r \in {<<-1>>, <<0>>} }

RECURSIVE StepSeqs(_)
StepSeqs(n) ==
    IF n = 0 THEN {<<>>}
    ELSE {Append(s, step) : s \in StepSeqs(n - 1), step \in CaseStepsAt(n)}

TestCases ==
    {[config |-> c, steps |-> s] : c \in Configs,
                                   s \in UNION {StepSeqs(n) : n \in 0..MaxSteps}}

\* no dict object, no call
NoHeap == <<>>
NoCall == [op |-> "none"]

Idle ==
    /\ heap = NoHeap
    /\ call = NoCall
    /\ ret = <<>>
    /\ cur = 0
    /\ step_results = <<>>
    /\ report = NoReport
    /\ executor = NoExecutor
    /\ result = StepResult("None", "pending")
    /\ attempt = 0
    /\ trace = FreshTrace

\* a TestCaseExecutor constructed for a test case
Init ==
    /\ pc = "init"
    /\ test_case \in TestCases
    /\ vm = NewVariableManager
    /\ Idle

Next ==
    \/ Start
    \/ Dispatch
    \/ Gate
    \/ Setup
    \/ Attempt
    \/ Teardown
    \/ AppendResult
    \/ LoopExit
    \/ CollectResults

Spec == Init /\ [][Next]_vars

-----------------------------------------------------------------------------
(* TestResultProcessor (backend/app/services/test_result_processor.py): the  *)
(* backend stores the report of the engine                                   *)

\* status_mapping.get(status, "error")
_map_step_status(status) ==
    CASE status = "success" -> "success"
      [] status = "failed" -> "failed"
      [] status = "skipped" -> "skipped"
      [] status = "error" -> "error"
      [] OTHER -> "error"

\* the error of the first step with the status failed or error that has an
\* error_info; the message names the step
RECURSIVE FirstFailedStep(_)
FirstFailedStep(steps) ==
    IF steps = <<>> THEN NoError
    ELSE IF Head(steps).status \in {"failed", "error"} /\ Head(steps).error_info /= NoError
         THEN [Head(steps).error_info EXCEPT
                  !.message = <<"step '", Head(steps).name, "' failed: ">> \o @]
         ELSE FirstFailedStep(Tail(steps))

\* extract_error_info: the top-level error_info, or that of the first failed step
extract_error_info(raw_result) ==
    IF raw_result.error_info /= NoError THEN raw_result.error_info
    ELSE IF raw_result.test_case.status \in {"failed", "error"}
    THEN FirstFailedStep(raw_result.steps)
    ELSE NoError

\* _process_step_results: one stored row per step of the report
_process_step_results(raw_result) ==
    [ i \in 1..Len(raw_result.steps) |->
        [ step_name |-> raw_result.steps[i].name, step_order |-> i - 1,
          status |-> _map_step_status(raw_result.steps[i].status) ] ]

\* process_result for the report the engine returned
ProcessResult ==
    /\ pc = "done"
    /\ pc' = "processed"
    /\ ret' = [ error_info |-> extract_error_info(report),
                steps |-> _process_step_results(report) ]
    /\ UNCHANGED <<heap, call, test_case, cur, step_results, report, vm, executor, result,
                   attempt, trace>>

NextProcess ==
    \/ Next
    \/ ProcessResult

SpecProcess == Init /\ [][NextProcess]_vars

\* an extractor whose path the extractor cannot compile, and one whose type is
\* written in capitals
ExtractBad == [name |-> k_user, type |-> "regex", path |-> BadPath]
ExtractUpper == [name |-> k_token, type |-> "JSONPath", path |-> <<k_token>>]

\* the rule of scenario S2: no path is given
RuleStatusNoPath ==
    [type |-> "status_code", path |-> NoPath, expect |-> "200", description |-> "is 200"]

\* the steps a request executor is constructed for
StepConfigs ==
    { [TestStep("B", "request") EXCEPT
          !.url = u, !.skip_if = s, !.only_if = o, !.depends_on = d, !.retry_times = r,
          !.setup = h[1], !.teardown = h[2], !.validations = v, !.extractors = e]
        : u \in {Lit("http://api/login"), BadTemplate},
          s \in {NoTemplate, Var(k_flag), BadTemplate},
          o \in {NoTemplate, Var(k_flag), Var(k_tok)},
          d \in {{}, {"A"}},
          r \in {NoRetry} \cup {<<n>> : n \in (-1)..MaxRetry},
          h \in BOOLEAN \X BOOLEAN,
          v \in {<<>>, <<RuleStatus200>>, <<RuleTokenEq, RuleStatus200>>, <<RuleStatusNoPath>>},
          e \in {<<>>, <<ExtractXml, ExtractBad, ExtractTok, ExtractUpper>>} }

\* a request executor constructed for a step, about to run execute()
InitStep ==
    /\ pc = "gate"
    /\ heap = NoHeap
    /\ call = NoCall
    /\ ret = <<>>
    /\ test_case = NoTestCase
    /\ cur = 0
    /\ step_results = <<>>
    /\ report = NoReport
    /\ vm \in {_initialize_variables(NewVariableManager, c) : c \in Configs}
    /\ executor \in {APIExecutor(step, n) : step \in StepConfigs, n \in 0..1}
    /\ result = PendingResult(executor.step, vm)
    /\ attempt = 0
    /\ trace = FreshTrace

NextStep ==
    \/ Gate
    \/ Setup
    \/ Attempt
    \/ Teardown

SpecStep == InitStep /\ [][NextStep]_vars

\* the wait steps a wait executor is constructed for
WaitSteps ==
    { [TestStep("W", "wait") EXCEPT
          !.seconds = s, !.condition = c, !.interval = i, !.max_wait = w, !.timeout = t,
          !.retry_times = r]
        : s \in {NoNumber, <<0>>, <<1>>, <<-1>>, <<DefaultWaitTimeout + 1>>},
          c \in {NoTemplate, Var(k_flag), BadTemplate},
          i \in {NoNumber, <<0>>, <<1>>, <<2>>},
          w \in {NoNumber, <<0>>, <<MaxWait>>, <<DefaultWaitTimeout + 1>>},
          t \in {NoNumber, <<2>>},
          r \in {NoRetry, <<1>>} }

\* a wait executor constructed for a step, about to run execute()
InitWait ==
    /\ pc = "gate"
    /\ heap = NoHeap
    /\ call = NoCall
    /\ ret = <<>>
    /\ test_case = NoTestCase
    /\ cur = 0
    /\ step_results = <<>>
    /\ report = NoReport
    /\ vm \in {_initialize_variables(NewVariableManager, Config(0, v))
                 : v \in {EmptyDoc, FlagFalse, FlagYes}}
    /\ executor \in {WaitExecutor(step, DefaultWaitTimeout, 0, <<>>) : step \in WaitSteps}
    /\ result = PendingResult(executor.step, vm)
    /\ attempt = 0
    /\ trace = FreshTrace

SpecWait == InitWait /\ [][NextStep]_vars

\* request steps that retry up to MaxBackoff times
RetrySteps ==
    { [TestStep("B", "request") EXCEPT !.retry_times = r, !.validations = v, !.teardown = h]
        : r \in {NoRetry} \cup {<<n>> : n \in 0..MaxBackoff},
          v \in {<<>>, <<RuleStatus200>>},
          h \in BOOLEAN }

\* a request executor constructed for a step that retries, about to run execute()
InitRetry ==
    /\ pc = "gate"
    /\ heap = NoHeap
    /\ call = NoCall
    /\ ret = <<>>
    /\ test_case = NoTestCase
    /\ cur = 0
    /\ step_results = <<>>
    /\ report = NoReport
    /\ vm = _initialize_variables(NewVariableManager, Config(0, EmptyDoc))
    /\ executor \in {APIExecutor(step, n) : step \in RetrySteps, n \in {0, MaxBackoff}}
    /\ result = PendingResult(executor.step, vm)
    /\ attempt = 0
    /\ trace = FreshTrace

SpecRetry == InitRetry /\ [][NextStep]_vars

-----------------------------------------------------------------------------
(* WaitExecutor._execute_step, one action per iteration of the poll loop; the *)
(* numbers of the step are decimal literals and the loop computes in floats   *)

\* rendered_step.get(key, default) followed by float()
GetFloat(value, default) == IF value = NoNumber THEN float(Dec(default, 0)) ELSE float(value[1])

\* lines 147-156 of _conditional_wait: the parameter checks
ParameterError(timeout, interval, max_wait) ==
    IF interval.neg \/ interval.m = <<>>
    THEN ValueError("Polling interval must be positive")
    ELSE IF max_wait.neg \/ max_wait.m = <<>>
    THEN ValueError("Maximum wait time must be positive")
    ELSE IF FloatLess(float(Dec(timeout, 0)), max_wait)
    THEN ValueError("Max wait time exceeds timeout")
    ELSE NoException

\* the locals of _conditional_wait when the poll loop starts; live and
\* evaluations record the history of the polls
PollFrame(condition, interval, max_wait) ==
    [ op |-> "_conditional_wait", condition |-> condition, interval |-> interval,
      max_wait |-> max_wait, elapsed |-> Zero, poll_count |-> 0,
      live |-> FALSE, evaluations |-> 0 ]

\* whether the condition of the step, rendered with the variables of the
\* manager as they are now, is true
LiveCondition(step, m) ==
    _is_condition_true(render_template(step.condition, get_all_variables(m)).text)

\* execute() renders the step and calls _execute_step, which dispatches on the
\* rendered dictionary and runs the parameter checks
PollEnter ==
    /\ pc = "execute"
    /\ LET rendered == wait_render_step(executor.step, vm)
           interval == GetFloat(rendered.interval, DefaultInterval)
           max_wait == GetFloat(rendered.max_wait, DefaultMaxWait)
       IN IF rendered.raised
          THEN pc' = "returned" /\ ret' = WaitRaise(TemplateError, 0) /\ call' = call
          ELSE IF rendered.condition /= ""
          THEN IF ParameterError(executor.timeout, interval, max_wait) /= NoException
               THEN /\ pc' = "returned"
                    /\ ret' = WaitRaise(ParameterError(executor.timeout, interval, max_wait), 0)
                    /\ call' = call
               ELSE /\ pc' = "poll"
                    /\ call' = PollFrame(rendered.condition, interval, max_wait)
                    /\ ret' = ret
          ELSE /\ pc' = "returned"
               /\ call' = call
               /\ ret' = IF rendered.seconds /= NoNumber
                         THEN _fixed_wait(executor.timeout, rendered.seconds[1])
                         ELSE WaitRaise(ValueError("Wait step must have either 'seconds' or 'condition'"), 0)
    /\ UNCHANGED <<heap, test_case, cur, step_results, report, vm, executor, result, attempt,
                   trace>>

\* lines 162-187: the test of the while loop and one evaluation of the
\* condition; the condition of the rendered dictionary is rendered again
Poll ==
    /\ pc = "poll"
    /\ IF FloatLess(call.elapsed, call.max_wait)
       THEN IF _is_condition_true(
                   render_template(Lit(call.condition), get_all_variables(vm)).text)
            THEN /\ pc' = "returned"
                 /\ ret' = WaitResult(Wrap(k_wait_type, Leaf("conditional")), call.poll_count + 1)
                 /\ call' = [call EXCEPT !.live = LiveCondition(executor.step, vm),
                                         !.evaluations = @ + 1]
            ELSE /\ pc' = "sleep"
                 /\ ret' = ret
                 /\ call' = [call EXCEPT !.live = LiveCondition(executor.step, vm),
                                         !.evaluations = @ + 1]
       ELSE /\ pc' = "returned"
            /\ ret' = WaitRaise(TimeoutError(call.condition), call.poll_count)
            /\ call' = call
    /\ UNCHANGED <<heap, test_case, cur, step_results, report, vm, executor, result, attempt,
                   trace>>

\* lines 189-192: time.sleep(interval); elapsed += interval; poll_count += 1
Sleep ==
    /\ pc = "sleep"
    /\ pc' = "poll"
    /\ call' = [call EXCEPT !.elapsed = FloatAdd(@, call.interval), !.poll_count = @ + 1]
    /\ UNCHANGED <<heap, ret, test_case, cur, step_results, report, vm, executor, result,
                   attempt, trace>>

\* a holder of the variable manager binds the flag while the wait is polling
PollSetVariable ==
    /\ pc \in {"poll", "sleep"}
    /\ \E v \in {"true", "false"} :
          /\ vm' = set_variable(vm, k_flag, Leaf(v))
          /\ vm' /= vm
    /\ UNCHANGED <<pc, heap, call, ret, test_case, cur, step_results, report, executor,
                   result, attempt, trace>>

\* the wait steps whose numbers are decimal literals
PollSteps ==
    { [TestStep("W", "wait") EXCEPT
          !.seconds = s, !.condition = c, !.interval = i, !.max_wait = w]
        : s \in {NoNumber, <<1>>},
          c \in {NoTemplate, Var(k_flag), Lit("ok"), BadTemplate},
          i \in {NoNumber, <<Dec(0, 0)>>, <<Dec(-1, 0)>>, <<Dec(1, 1)>>, <<Dec(3, 1)>>,
                 <<Dec(1, 0)>>},
          w \in {NoNumber, <<Dec(0, 0)>>, <<Dec(DefaultWaitTimeout + 1, 0)>>}
                 \cup {<<Dec(n, 0)>> : n \in 1..MaxWait} }

InitPoll ==
    /\ pc = "execute"
    /\ heap = NoHeap
    /\ call = NoCall
    /\ ret = <<>>
    /\ test_case = NoTestCase
    /\ cur = 0
    /\ step_results = <<>>
    /\ report = NoReport
    /\ vm \in {_initialize_variables(NewVariableManager, Config(0, v))
                 : v \in {EmptyDoc, FlagFalse, FlagYes}}
    /\ executor \in {WaitExecutor(step, DefaultWaitTimeout, 0, <<>>) : step \in PollSteps}
    /\ result = PendingResult(executor.step, vm)
    /\ attempt = 0
    /\ trace = FreshTrace

NextPoll ==
    \/ PollEnter
    \/ Poll
    \/ Sleep
    \/ PollSetVariable

SpecPoll == InitPoll /\ [][NextPoll]_vars

-----------------------------------------------------------------------------
(* Command line (cli.py): main() around the parser and TestCaseExecutor; the *)
(* parser is a collaborator whose outcome is an input                        *)

\* validate_yaml: the exit code for the kind of the path and the parser's verdict
validate_yaml(path, errors) ==
    IF path = "missing" THEN 1
    ELSE IF errors THEN 1
    ELSE 0

\* the except clauses of main: the exit code for an exception class
MainExcept(exc) ==
    IF exc = "FileNotFoundError" THEN 1
    ELSE IF exc = "YamlParseError" THEN 1
    ELSE 1

\* execute_test_case, lines 164-166: --profile overrides the active profile
OverrideProfile(tc, profile) ==
    IF profile /= NoProfile THEN [tc EXCEPT !.config.active_profile = profile] ELSE tc

Exited(code, exc) == [exit_code |-> code, exc |-> exc]

\* what parser.parse can raise
ParseErrors == {"FileNotFoundError", "YamlParseError", "KeyError"}

\* the test cases parser.parse returns
CliTestCases ==
    {tc \in TestCases : Len(tc.steps) <= 1}
        \cup {[config |-> c, steps |-> <<>>]
               : c \in { Config(0, Wrap(k_config, Leaf("abc"))),
                         ConfigWithProfile(0, FlagTrue, Wrap(k_config, Leaf("abc"))) }}

\* the parsed arguments of main
CliArgs ==
    [ op : {"main"}, validate : BOOLEAN, path : {"file", "dir", "missing"},
      errors : BOOLEAN, output : BOOLEAN, profile : {NoProfile, k_dev, k_prod} ]

\* main() entered with its arguments parsed
InitCli ==
    /\ pc = "cli"
    /\ call \in {c \in CliArgs : (c.validate => ~c.output /\ c.profile = NoProfile)
                                   /\ (~c.validate => c.path = "file" /\ ~c.errors)}
    /\ heap = NoHeap
    /\ ret = <<>>
    /\ test_case = NoTestCase
    /\ vm = NewVariableManager
    /\ cur = 0
    /\ step_results = <<>>
    /\ report = NoReport
    /\ executor = NoExecutor
    /\ result = StepResult("None", "pending")
    /\ attempt = 0
    /\ trace = FreshTrace

\* if args.validate: return validate_yaml(args.cases)
CliValidate ==
    /\ pc = "cli"
    /\ call.validate
    /\ ret' = Exited(validate_yaml(call.path, call.errors), "none")
    /\ pc' = "exited"
    /\ UNCHANGED <<heap, call, test_case, cur, step_results, report, vm, executor, result,
                   attempt, trace>>

\* execute_test_case up to the construction of TestCaseExecutor: the parser
\* raises, or returns a test case
CliParse ==
    /\ pc = "cli"
    /\ ~call.validate
    /\ \/ \E exc \in ParseErrors :
            /\ ret' = Exited(MainExcept(exc), exc)
            /\ pc' = "exited"
            /\ UNCHANGED test_case
       \/ \E tc \in CliTestCases :
            /\ test_case' = OverrideProfile(tc, call.profile)
            /\ pc' = "init"
            /\ UNCHANGED ret
    /\ UNCHANGED <<heap, call, cur, step_results, report, vm, executor, result, attempt, trace>>

\* the rest of main once executor.execute() returned or raised: save_result,
\* which may raise, and the exit code
CliReturn ==
    /\ call.op = "main"
    /\ pc \in {"done", "raised"}
    /\ IF pc = "raised"
       THEN ret' = Exited(MainExcept("ValueError"), "ValueError")
       ELSE \E save_raises \in (IF call.output THEN BOOLEAN ELSE {FALSE}) :
              ret' = IF save_raises THEN Exited(MainExcept("OSError"), "OSError")
                     ELSE Exited(0, "none")
    /\ pc' = "exited"
    /\ UNCHANGED <<heap, call, test_case, cur, step_results, report, vm, executor, result,
                   attempt, trace>>

NextCli ==
    \/ CliValidate
    \/ CliParse
    \/ CliReturn
    \/ Next

SpecCli == InitCli /\ [][NextCli]_vars

\* step results handed to collect: every status, no data
InitCollect ==
    /\ pc = "collect"
    /\ heap = NoHeap
    /\ call = NoCall
    /\ ret = <<>>
    /\ test_case = NoTestCase
    /\ vm = NewVariableManager
    /\ cur = 0
    /\ report = NoReport
    /\ executor = NoExecutor
    /\ result = StepResult("None", "pending")
    /\ attempt = 0
    /\ trace = FreshTrace
    /\ \E n \in 0..MaxLen :
          step_results \in [1..n -> {StepResult("A", status) : status \in StepStatuses}]

NextCollect == CollectResults

SpecCollect == InitCollect /\ [][NextCollect]_vars

-----------------------------------------------------------------------------
(* ValidationEngine.validate called on its own *)

Rules ==
    { [type |-> t, path |-> p, expect |-> e, description |-> "rule"]
        : t \in {"eq", "gt", "status_code", "nope"},
          p \in {NoPath, <<k_status_code>>, <<k_token>>, BadPath},
          e \in {"200", "abc", "1"} }

\* the envelopes and the body validate is handed by APIExecutor
ResponseData == {ResponseToken, Subtree(ResponseToken, <<k_body>>), ResponseError}

InitValidate ==
    /\ pc = "validate"
    /\ test_case = NoTestCase
    /\ vm = NewVariableManager
    /\ cur = 0
    /\ step_results = <<>>
    /\ report = NoReport
    /\ executor = NoExecutor
    /\ result = StepResult("None", "pending")
    /\ attempt = 0
    /\ trace = FreshTrace
    /\ heap = NoHeap
    /\ ret = <<>>
    /\ \E n \in 0..MaxRules :
          call \in [op : {"validate"}, validations : [1..n -> Rules],
                    response_data : ResponseData]

\* results = engine.validate(validations, response_data)
Validate ==
    /\ pc = "validate"
    /\ ret' = validate(call.validations, call.response_data)
    /\ pc' = "validated"
    /\ UNCHANGED <<heap, call, test_case, cur, step_results, report, vm, executor, result,
                   attempt, trace>>

NextValidate == Validate

SpecValidate == InitValidate /\ [][NextValidate]_vars

\* the comparator names of the catalogue (section 4.3 of the specification)
Catalogue ==
    { "eq", "ne", "gt", "lt", "ge", "le", "contains", "not_contains", "regex", "type",
      "in", "not_in", "length_eq", "length_gt", "length_lt", "is_empty", "is_null",
      "exists", "status_code", "between" }

LookupNames == Catalogue \cup ComparatorNames \cup ObjectAttributes \cup {"nope", ""}

\* the integers handed to status_code
Codes == (-1)..MaxCode

\* the expected values of status_code, as the characters of str(expected)
ExpectedCodes ==
    {<<Digits[d], "x", "x">> : d \in 1..10} \cup {<<"2", "X", "X">>, <<"a", "b", "c">>}
        \cup {IntStr(n) : n \in {2, 20, 200, 299, 404}}

\* a lookup of a comparator or a call of Comparators.status_code about to run
InitCompare ==
    /\ pc = "compare"
    /\ call \in {[op |-> "get_comparator", name |-> n] : n \in LookupNames}
                \cup {[op |-> "status_code", actual |-> a, expected |-> e]
                        : a \in Codes, e \in ExpectedCodes}
    /\ test_case = NoTestCase
    /\ vm = NewVariableManager
    /\ cur = 0
    /\ step_results = <<>>
    /\ report = NoReport
    /\ executor = NoExecutor
    /\ result = StepResult("None", "pending")
    /\ attempt = 0
    /\ trace = FreshTrace
    /\ heap = NoHeap
    /\ ret = <<>>

\* comparator = get_comparator(name)
GetComparator ==
    /\ pc = "compare"
    /\ call.op = "get_comparator"
    /\ ret' = [exc |-> get_comparator(call.name), value |-> GetAttr(call.name)]
    /\ pc' = "looked_up"
    /\ UNCHANGED <<heap, call, test_case, cur, step_results, report, vm, executor, result,
                   attempt, trace>>

\* Comparators.status_code(actual, expected) for an integer actual
StatusCode ==
    /\ pc = "compare"
    /\ call.op = "status_code"
    /\ ret' = [exc |-> "none", passed |-> StatusCodeCompare(call.actual, call.expected)]
    /\ pc' = "compared"
    /\ UNCHANGED <<heap, call, test_case, cur, step_results, report, vm, executor, result,
                   attempt, trace>>

NextCompare ==
    \/ GetComparator
    \/ StatusCode

SpecCompare == InitCompare /\ [][NextCompare]_vars

-----------------------------------------------------------------------------
(* VariableManager and VariableScope used on their own.  Here the dicts are   *)
(* objects: heap holds their contents, and the fields of vm, of a snapshot    *)
(* and of a scope hold references (indices) into heap, so that a dict shared  *)
(* by two holders changes for both.                                           *)

\* the manager by value: the contents of its three layers
Layers(h, m) ==
    [ global_vars |-> h[m.global_vars], profile_vars |-> h[m.profile_vars],
      extracted_vars |-> h[m.extracted_vars] ]

\* the contents of a snapshot
SnapshotValue(h, s) ==
    [global |-> h[s.global], profile |-> h[s.profile], extracted |-> h[s.extracted]]

NoRefs == [global |-> 0, profile |-> 0, extracted |-> 0]

DeepCopy_shares(h, s) == [heap |-> h, refs |-> s]

\* copy.deepcopy of the three dicts s refers to: three new objects
DeepCopy(h, s) ==
    [ heap |-> h \o <<h[s.global], h[s.profile], h[s.extracted]>>,
      refs |-> [global |-> Len(h) + 1, profile |-> Len(h) + 2, extracted |-> Len(h) + 3] ]

ShouldRestore_on_normal_exit(_snapshot, raised) == _snapshot /= NoRefs /\ ~raised

\* VariableScope.__exit__: if self._snapshot
ShouldRestore(_snapshot, raised) == _snapshot /= NoRefs

VarNames == {k_flag, k_tok}

NoOp == [ op |-> "none", name |-> <<>>, value |-> EmptyDoc, before |-> NewVariableManager,
          raised |-> FALSE ]

\* what an operation leaves in ret: its name, its argument, what it returned, and
\* the layers before it
Done(op, name, value, raised) ==
    [ op |-> op, name |-> name, value |-> value, before |-> Layers(heap, vm),
      raised |-> raised ]

InitVars ==
    /\ pc = "vars"
    /\ test_case = NoTestCase
    /\ cur = 0
    /\ step_results = <<>>
    /\ report = NoReport
    /\ executor = NoExecutor
    /\ result = StepResult("None", "pending")
    /\ attempt = 0
    /\ trace = FreshTrace
    /\ vm = [global_vars |-> 1, profile_vars |-> 2, extracted_vars |-> 3]
    /\ heap \in {<<g, p, e>> : g \in {EmptyDoc, FlagFalse}, p \in {EmptyDoc, FlagYes},
                               e \in {EmptyDoc, FlagTrue}}
    /\ call = [ ops |-> 0, saved |-> NoRefs, saved_value |-> NoSnapshot,
                scope |-> NoRefs, in_scope |-> FALSE, entry |-> NewVariableManager ]
    /\ ret = NoOp

Frame == UNCHANGED <<pc, test_case, cur, step_results, report, executor, result, attempt, trace>>

CanCall == pc = "vars" /\ call.ops < MaxOps

\* manager.set_variable(name, value): self.extracted_vars[name] = value
SetVariable ==
    /\ CanCall
    /\ \E name \in VarNames, value \in {Leaf("1")} :
          /\ heap' = [heap EXCEPT ![vm.extracted_vars] =
                          set_variable(Layers(heap, vm), name, value).extracted_vars]
          /\ ret' = Done("set_variable", name, value, FALSE)
    /\ call' = [call EXCEPT !.ops = @ + 1]
    /\ UNCHANGED vm
    /\ Frame

\* manager.set_profile(profile_vars) with a dict of the caller
SetProfile ==
    /\ CanCall
    /\ heap' = Append(heap, Wrap(k_tok, Leaf("abc")))
    /\ vm' = set_profile(vm, Len(heap) + 1)
    /\ ret' = Done("set_profile", <<>>, EmptyDoc, FALSE)
    /\ call' = [call EXCEPT !.ops = @ + 1]
    /\ Frame

\* manager.clear_extracted(): self.extracted_vars.clear()
ClearExtracted ==
    /\ CanCall
    /\ heap' = [heap EXCEPT ![vm.extracted_vars] =
                    clear_extracted(Layers(heap, vm)).extracted_vars]
    /\ ret' = Done("clear_extracted", <<>>, EmptyDoc, FALSE)
    /\ call' = [call EXCEPT !.ops = @ + 1]
    /\ UNCHANGED vm
    /\ Frame

\* manager.get_variable(name)
GetVariable ==
    /\ CanCall
    /\ \E name \in VarNames :
          ret' = Done("get_variable", name, get_variable(Layers(heap, vm), name, EmptyDoc), FALSE)
    /\ call' = [call EXCEPT !.ops = @ + 1]
    /\ UNCHANGED <<heap, vm>>
    /\ Frame

\* the strings and the value that is no string handed to render_string
RenderInputs ==
    {NoTemplate, Lit("abc"), Lit(""), Var(k_flag), BadTemplate, Stmt(k_flag, "abc")}

\* manager.render_string(template_str)
RenderString ==
    /\ CanCall
    /\ \E t \in RenderInputs :
          ret' = Done("render_string", t, render_string(Layers(heap, vm), t).text,
                      render_string(Layers(heap, vm), t).raised)
    /\ call' = [call EXCEPT !.ops = @ + 1]
    /\ UNCHANGED <<heap, vm>>
    /\ Frame

\* manager.render_dict({"a": ..., "b": ...})
RenderDict ==
    /\ CanCall
    /\ \E data \in [{"a", "b"} -> {Lit("abc"), Var(k_tok), Stmt(k_tok, "abc")}] :
          ret' = Done("render_dict", data, render_dict(Layers(heap, vm), data).value,
                      render_dict(Layers(heap, vm), data).raised)
    /\ call' = [call EXCEPT !.ops = @ + 1]
    /\ UNCHANGED <<heap, vm>>
    /\ Frame

\* saved = manager.snapshot()
Snapshot ==
    /\ CanCall
    /\ heap' = DeepCopy(heap, snapshot(vm)).heap
    /\ call' = [call EXCEPT !.ops = @ + 1,
                            !.saved = DeepCopy(heap, snapshot(vm)).refs,
                            !.saved_value = snapshot(Layers(heap, vm))]
    /\ ret' = Done("snapshot", <<>>, EmptyDoc, FALSE)
    /\ UNCHANGED vm
    /\ Frame

\* manager.restore_snapshot(saved)
RestoreSnapshot ==
    /\ CanCall
    /\ call.saved /= NoRefs
    /\ heap' = DeepCopy(heap, call.saved).heap
    /\ vm' = restore_snapshot(vm, DeepCopy(heap, call.saved).refs)
    /\ call' = [call EXCEPT !.ops = @ + 1]
    /\ ret' = Done("restore_snapshot", <<>>, EmptyDoc, FALSE)
    /\ Frame

\* the heap and the manager after manager.restore_snapshot(s) for the copy c
\* restore_snapshot makes of s
Restored(c) == [heap |-> c.heap, vm |-> restore_snapshot(vm, c.refs)]

\* manager.restore_snapshot(manager.snapshot())
RoundTrip ==
    /\ CanCall
    /\ heap' = Restored(DeepCopy(DeepCopy(heap, snapshot(vm)).heap,
                                 DeepCopy(heap, snapshot(vm)).refs)).heap
    /\ vm' = Restored(DeepCopy(DeepCopy(heap, snapshot(vm)).heap,
                               DeepCopy(heap, snapshot(vm)).refs)).vm
    /\ call' = [call EXCEPT !.ops = @ + 1]
    /\ ret' = Done("round_trip", <<>>, EmptyDoc, FALSE)
    /\ Frame

\* with VariableScope(manager): __enter__
ScopeEnter ==
    /\ CanCall
    /\ ~call.in_scope
    /\ heap' = DeepCopy(heap, snapshot(vm)).heap
    /\ call' = [call EXCEPT !.ops = @ + 1, !.in_scope = TRUE,
                            !.scope = DeepCopy(heap, snapshot(vm)).refs,
                            !.entry = Layers(heap, vm)]
    /\ ret' = Done("scope_enter", <<>>, EmptyDoc, FALSE)
    /\ UNCHANGED vm
    /\ Frame

\* the block ends, normally or with an exception: __exit__, which returns
\* False, so that the exception goes on to the caller
ScopeExit ==
    /\ CanCall
    /\ call.in_scope
    /\ \E raised \in BOOLEAN :
          /\ IF ShouldRestore(call.scope, raised)
             THEN /\ heap' = Restored(DeepCopy(heap, call.scope)).heap
                  /\ vm' = Restored(DeepCopy(heap, call.scope)).vm
             ELSE UNCHANGED <<heap, vm>>
          /\ ret' = Done("scope_exit", <<>>, EmptyDoc, raised)
    /\ call' = [call EXCEPT !.ops = @ + 1, !.in_scope = FALSE]
    /\ Frame

NextVars ==
    \/ SetVariable
    \/ SetProfile
    \/ ClearExtracted
    \/ GetVariable
    \/ RenderString
    \/ RenderDict
    \/ Snapshot
    \/ RestoreSnapshot
    \/ RoundTrip
    \/ ScopeEnter
    \/ ScopeExit

SpecVars == InitVars /\ [][NextVars]_vars

-----------------------------------------------------------------------------
(* Properties *)

\* the dependency of the step in execution that has no successful result
UnmetDependency ==
    \E dep \in executor.step.depends_on :
        ~\E i \in 1..Len(step_results) :
            step_results[i].name = dep /\ step_results[i].status = "success"

\* C1 as stated: a step B that depends on a step A whose result is not success
\* (or is missing) gets the status skipped and makes no attempt: it renders
\* nothing and sends no request.
C1_DependencyGating ==
    (pc = "returned" /\ UnmetDependency)
        => (result.status = "skipped" /\ trace.attempts = 0 /\ trace.requests = 0)

\* C1 as amended: such a step makes no attempt and sends no request; its status
\* is skipped, except that it is failure when rendering one of its skip_if /
\* only_if conditions raised.
C1_DependencyGatingAmended ==
    (pc = "returned" /\ UnmetDependency)
        => /\ trace.attempts = 0
           /\ trace.requests = 0
           /\ result.status = IF trace.gate = "raise" THEN "failure" ELSE "skipped"

C1_Witness ==
    /\ pc = "returned"
    /\ executor.step.depends_on = {"A"}
    /\ Len(step_results) = 1
    /\ step_results[1].name = "A"
    /\ step_results[1].status = "failure"
    /\ result.name = "B"
    /\ result.status = "skipped"

\* C2: execute never lets an exception out: whatever the gate, the setup hook,
\* the rendering, the request, the validations or the teardown hook raise, it
\* returns a StepResult, and a result returned after an exception ended the
\* lifecycle has the status failure and an error_info.
C2_ExecuteNeverRaises ==
    /\ pc /= "raised"
    /\ (pc = "returned" /\ trace.exc /= NoException)
           => (result.status = "failure" /\ result.error_info /= NoError)

C2_Witness ==
    /\ pc = "returned"
    /\ trace.teardown_called
    /\ trace.exc = HookError
    /\ result.status = "failure"
    /\ result.error_info.type = "ValueError"

HasStatus(results, statuses) == \E i \in 1..Len(results) : results[i].status \in statuses

\* C3: the case status collect computes is failed if a step has the status
\* failure or error, otherwise skipped if every step is skipped, otherwise passed.
C3_CaseStatus ==
    pc = "done" =>
        report.test_case.status =
            IF HasStatus(step_results, {"failure", "error"}) THEN "failed"
            ELSE IF \A i \in 1..Len(step_results) : step_results[i].status = "skipped"
                 THEN "skipped"
            ELSE "passed"

C5_ReportInDeclarationOrder ==
    pc = "done" =>
        /\ Len(report.steps) = Len(test_case.steps)
        /\ \A i \in 1..Len(report.steps) : report.steps[i].name = test_case.steps[i].name

C5_Witness ==
    /\ pc = "done"
    /\ Len(test_case.steps) = 2
    /\ Len(report.steps) = 2
    /\ report.steps[1].status = "failure"
    /\ report.steps[2].status = "success"

\* C6: execute dispatches every step of the six kinds to an executor and
\* returns a report: it does not raise.
C6_EveryKindDispatched ==
    /\ pc /= "raised"
    /\ pc = "done" => Len(report.steps) = Len(test_case.steps)

\* C7: when a step with a teardown hook passes its gate, the teardown hook has
\* been run by the time execute returns, after a success and after a final
\* failure alike.
C7_TeardownAlwaysRuns ==
    (pc = "returned" /\ trace.gate = "run" /\ executor.step.teardown)
        => trace.teardown_called

\* C8: a returned StepResult has retry_count <= the effective retry_times, and
\* at most retry_times + 1 attempts were made.
C8_RetryCountBound ==
    pc = "returned" =>
        /\ result.retry_count <= executor.retry_times
        /\ trace.attempts <= executor.retry_times + 1

\* no sensitive key of the doc, at any depth, has a value other than "***"
Masked(doc) ==
    \A p \in DOMAIN doc :
        \A i \in 1..Len(p) : IsSensitive(p[i]) => (i = Len(p) /\ doc[p] = MASK)

\* C9: in the report no key whose lowercased name contains a sensitive pattern
\* has a value other than "***", at any depth of the step response, the
\* extracted variables, the variables snapshot, the validations and the final
\* variables.
C9_MaskingComplete ==
    pc = "done" =>
        /\ Masked(report.final_variables)
        /\ \A i \in 1..Len(report.steps) :
              /\ Masked(report.steps[i].response)
              /\ Masked(report.steps[i].extracted_vars)
              /\ Masked(report.steps[i].variables_snapshot)
              /\ \A v \in 1..Len(report.steps[i].validations) :
                    Masked(report.steps[i].validations[v].actual)

\* C10: a request step that ends because a validation rule did not pass has
\* the status failure with an ErrorInfo, all its rules were evaluated, and its
\* StepResult carries the response and one validation record per rule.
C10_CompleteOnAssertionFailure ==
    (pc = "returned" /\ trace.exc.type = "AssertionError")
        => /\ result.status = "failure"
           /\ result.error_info /= NoError
           /\ trace.evaluated = Len(executor.step.validations)
           /\ result.response /= EmptyDoc
           /\ Len(result.validation_results) = Len(executor.step.validations)

\* C11: validate never raises: it returns one record per rule, in rule order,
\* and a rule whose path resolution, comparator lookup, comparison or message
\* ends in an error gets passed = false with a non-empty error message.
C11_ValidateNeverRaises ==
    pc = "validated"
        => /\ ~ret.raised
           /\ Len(ret.results) = Len(call.validations)
           /\ \A i \in 1..Len(call.validations) :
                 LET rule == call.validations[i]
                     rec == ret.results[i]
                 IN /\ rec.type = rule.type
                    /\ rec.expected = rule.expect
                    /\ rec.description = rule.description
                    /\ TryValidate(rule, call.response_data).exc /= "none"
                          => (~rec.passed /\ rec.error /= "")
                    /\ ~rec.passed => rec.error /= ""

C11_Witness ==
    /\ pc = "validated"
    /\ Len(ret.results) = 2
    /\ ret.results[1].error = "Comparator error"
    /\ ret.results[2].error = "Validation error"
    /\ TryValidate(call.validations[2], call.response_data).exc = "TypeError"

\* the successful step that is the last one of step_results to bind the name v
LastBinder(i, v) ==
    /\ step_results[i].status = "success"
    /\ v \in TopKeys(step_results[i].extracted_vars)
    /\ \A j \in (i + 1)..Len(step_results) : v \notin TopKeys(step_results[j].extracted_vars)

BoundNames == {k_tok, k_token, k_user}

\* a later step that sends {{tok}} in a header sends the value bound to tok
ExtractedValueRendered ==
    (pc = "returned" /\ trace.requests > 0 /\ executor.step.headers = Var(k_tok))
        => \A i \in 1..Len(step_results) :
              LastBinder(i, k_tok)
                  => Leaf(trace.headers) = Subtree(step_results[i].extracted_vars, <<k_tok>>)

\* C12 as stated: a value an extractor of a successful step binds to a name v is
\* what {{v}} expands to in the request of every later step, and the report
\* shows it as final_variables.v, the latest step winning when several bind v.
C12_ExtractionChain ==
    /\ ExtractedValueRendered
    /\ pc = "done"
          => \A i \in 1..Len(step_results) : \A v \in BoundNames :
                LastBinder(i, v)
                    => Subtree(report.final_variables, <<v>>)
                          = Subtree(step_results[i].extracted_vars, <<v>>)

\* C12 as amended: the same, but final_variables.v shows a string value itself
\* only when the name v contains no sensitive pattern; under a name that
\* contains one the report shows ***.
C12_ExtractionChainAmended ==
    /\ ExtractedValueRendered
    /\ pc = "done"
          => \A i \in 1..Len(step_results) : \A v \in BoundNames :
                (LastBinder(i, v) /\ IsLeaf(Subtree(step_results[i].extracted_vars, <<v>>)))
                    => Subtree(report.final_variables, <<v>>)
                          = IF IsSensitive(v) THEN Leaf(MASK)
                            ELSE Subtree(step_results[i].extracted_vars, <<v>>)

C12_Witness ==
    /\ pc = "done"
    /\ Len(step_results) = 2
    /\ step_results[1].extracted_vars = Wrap(k_tok, Leaf("abc"))
    /\ step_results[2].extracted_vars = Wrap(k_tok, Leaf("1"))
    /\ test_case.steps[2].headers = Var(k_tok)
    /\ trace.headers = "abc"
    /\ report.final_variables = Wrap(k_tok, Leaf("1"))

\* C13: get_variable(k) returns the extracted value if k is in the extracted
\* layer, else the profile value if k is in the profile layer, else the global
\* value if k is in the global layer, else the default.
C13_PriorityLayering ==
    ret.op = "get_variable"
        => LET k == ret.name
               InE == k \in TopKeys(ret.before.extracted_vars)
               InP == k \in TopKeys(ret.before.profile_vars)
               InG == k \in TopKeys(ret.before.global_vars)
           IN /\ InE => ret.value = Subtree(ret.before.extracted_vars, <<k>>)
              /\ (~InE /\ InP) => ret.value = Subtree(ret.before.profile_vars, <<k>>)
              /\ (~InE /\ ~InP /\ InG) => ret.value = Subtree(ret.before.global_vars, <<k>>)
              /\ (~InE /\ ~InP /\ ~InG) => ret.value = EmptyDoc
              /\ ret.value = Subtree(get_all_variables(ret.before), <<k>>)

C13_Witness ==
    /\ ret.op = "get_variable"
    /\ ret.name = k_flag
    /\ ret.before.global_vars = FlagFalse
    /\ ret.before.profile_vars = FlagYes
    /\ ret.before.extracted_vars = FlagTrue
    /\ ret.value = Leaf("True")

\* C14: restore_snapshot(snapshot()) leaves the three layers as they were, and
\* a snapshot taken earlier keeps its contents whatever set_variable,
\* set_profile and clear_extracted do later.
C14_SnapshotRoundTrip ==
    /\ ret.op = "round_trip" => Layers(heap, vm) = ret.before
    /\ call.saved /= NoRefs => SnapshotValue(heap, call.saved) = call.saved_value

C14_Witness ==
    /\ ret.op = "round_trip"
    /\ call.saved /= NoRefs
    /\ call.saved_value.extracted /= Layers(heap, vm).extracted_vars
    /\ Layers(heap, vm).extracted_vars /= EmptyDoc

\* C15: when a VariableScope block exits, normally or by an exception, the three
\* layers are what they were when the block was entered.
C15_ScopeGuard ==
    ret.op = "scope_exit" => Layers(heap, vm) = call.entry

C15_Witness ==
    /\ ret.op = "scope_exit"
    /\ ret.raised
    /\ ret.before /= call.entry
    /\ Layers(heap, vm) = call.entry

\* C16: once TestCaseExecutor has initialised the variables and layered the
\* profile, no step changes the global or the profile layer; the extracted layer
\* changes only when an attempt commits what the extractors of its step found.
C16_OnlyExtractedLayerChanges ==
    [][pc /= "init"
         => /\ vm'.global_vars = vm.global_vars
            /\ vm'.profile_vars = vm.profile_vars
            /\ vm'.extracted_vars /= vm.extracted_vars
                  => /\ pc = "attempt"
                     /\ vm'.extracted_vars
                           = DocUpdate(vm.extracted_vars, result'.extracted_vars)
                     /\ TopKeys(result'.extracted_vars)
                           \subseteq {executor.step.extractors[i].name
                                         : i \in 1..Len(executor.step.extractors)}]_vars

C16_Witness ==
    /\ pc = "done"
    /\ vm.profile_vars = ProfileTok
    /\ vm.global_vars /= EmptyDoc
    /\ vm.extracted_vars = Wrap(k_tok, Leaf("abc"))
    /\ Len(step_results) = 2

\* C17: a test case whose only step is a wait step with seconds = s,
\* 0 <= s <= timeout, run through TestCaseExecutor, yields a report: the case
\* passed, one step passed, and the response of the step has wait_type "fixed".
C17_FixedWait ==
    (/\ Len(test_case.steps) = 1
     /\ test_case.steps[1].type = "wait"
     /\ test_case.steps[1].condition = NoTemplate
     /\ test_case.steps[1].seconds /= NoNumber
     /\ test_case.steps[1].seconds[1] \in 0..DefaultWaitTimeout
     /\ pc \notin {"init", "loop"})
        => /\ pc /= "raised"
           /\ pc = "done" =>
                 /\ report.test_case.status = "passed"
                 /\ report.statistics.passed_steps = 1
                 /\ Subtree(report.steps[1].response, <<k_wait_type>>) = Leaf("fixed")

\* a conditional wait with valid polling parameters whose condition renders to
\* a text that is not truthy
ConditionNeverTrue ==
    /\ executor.kind = "wait"
    /\ ~wait_render_step(executor.step, vm).raised
    /\ wait_render_step(executor.step, vm).condition /= ""
    /\ ~_is_condition_true(wait_render_step(executor.step, vm).condition)
    /\ GetNumber(executor.step.interval, DefaultInterval) > 0
    /\ GetNumber(executor.step.max_wait, DefaultMaxWait) > 0
    /\ GetNumber(executor.step.max_wait, DefaultMaxWait) <= executor.timeout

\* C18: a conditional wait whose condition never becomes truthy before max_wait
\* elapses raises TimeoutError; the lifecycle records a result with status
\* failure and error category timeout, and the case counts one failed step.
C18_ConditionalWaitTimeout ==
    (pc = "returned" /\ ConditionNeverTrue)
        => /\ trace.exc.type = "TimeoutError"
           /\ result.status = "failure"
           /\ result.error_info.category = "timeout"
           /\ collect(<<result>>).failed_steps = 1

\* C19: a request step whose response has status code 200 and whose only
\* validation is {type: status_code, expect: "200"} with no path ends with
\* status success and one validation record, which passed.
C19_StatusCodeAssertion ==
    (/\ pc = "returned"
     /\ executor.kind = "api"
     /\ executor.step.validations = <<RuleStatusNoPath>>
     /\ ~executor.step.setup
     /\ ~executor.step.teardown
     /\ trace.gate = "run"
     /\ Subtree(trace.response, <<k_status_code>>) = Leaf("200"))
        => /\ result.status = "success"
           /\ Len(result.validation_results) = 1
           /\ result.validation_results[1].passed

\* C20: main() returns 0 when the executed test case is not failed, 1 on
\* YamlParseError or FileNotFoundError, 2 when execution completes with a
\* failed test case, and 3 on any other exception.
C20_ExitCodes ==
    (pc = "exited" /\ ~call.validate)
        => ret.exit_code =
             (IF ret.exc \in {"YamlParseError", "FileNotFoundError"} THEN 1
              ELSE IF ret.exc /= "none" THEN 3
              ELSE IF report.test_case.status = "failed" THEN 2
              ELSE 0)

\* C21: for every name of the catalogue, get_comparator(name) does not raise
\* and returns the comparator of that name.
C21_LookupTotal ==
    (pc = "looked_up" /\ call.name \in Catalogue)
        => /\ ret.exc = "none"
           /\ ret.value.kind = "comparator"

\* C22: for every name that is not in the catalogue, get_comparator(name)
\* raises ComparatorError.
C22_CatalogueClosed ==
    (pc = "looked_up" /\ call.name \notin Catalogue) => ret.exc = "ComparatorError"

\* the wildcard Nxx of an expected value, as N; -1 when it is no wildcard
WildcardDigit(expected) ==
    IF Len(expected) = 3 /\ expected[2] = "x" /\ expected[3] = "x"
          /\ IsNumeric(<<expected[1]>>)
    THEN DigitValue(expected[1]) ELSE -1

\* C23 as stated: for every integer actual, status_code(actual, "Nxx") iff
\* N*100 <= actual <= N*100 + 99; a non-wildcard expected iff actual equals
\* its integer value.
C23_StatusCodeWildcard ==
    (pc = "compared" /\ (WildcardDigit(call.expected) >= 0 \/ IsNumeric(call.expected)))
        => ret.passed =
             IF WildcardDigit(call.expected) >= 0
             THEN /\ WildcardDigit(call.expected) * 100 <= call.actual
                  /\ call.actual <= WildcardDigit(call.expected) * 100 + 99
             ELSE call.actual = ToInt(call.expected)

\* C23 amended: the same for the integers of three digits, 100..999.
C23_StatusCodeWildcardAmended ==
    (pc = "compared" /\ call.actual \in 100..999
       /\ (WildcardDigit(call.expected) >= 0 \/ IsNumeric(call.expected)))
        => ret.passed =
             IF WildcardDigit(call.expected) >= 0
             THEN /\ WildcardDigit(call.expected) * 100 <= call.actual
                  /\ call.actual <= WildcardDigit(call.expected) * 100 + 99
             ELSE call.actual = ToInt(call.expected)

C23_Witness ==
    /\ pc = "compared"
    /\ call.actual = 299
    /\ call.expected = <<"2", "x", "x">>
    /\ ret.passed

\* the extractors of the step that deliver a value from the response
Delivers(i) ==
    /\ ~Extract(executor.step.extractors[i], result.response).raised
    /\ Extract(executor.step.extractors[i], result.response).value /= EmptyDoc

\* C24: an extractor that raises, has an unsupported type or yields None does
\* not fail the step: the status stays success, its name is bound neither in
\* the extracted layer nor in extracted_vars (unless another extractor of the
\* step delivers it), and the other extractors of the step are still run.
C24_ExtractFailureTolerated ==
    (trace.step_returned /\ ~trace.teardown_called /\ executor.kind = "api")
        => /\ pc = "teardown"
           /\ result.status = "success"
           /\ \A i \in 1..Len(executor.step.extractors) :
                 LET name == executor.step.extractors[i].name
                     same == {j \in 1..Len(executor.step.extractors) :
                                 executor.step.extractors[j].name = name /\ Delivers(j)}
                 IN IF same = {}
                    THEN /\ Subtree(result.extracted_vars, <<name>>) = EmptyDoc
                         /\ Subtree(vm.extracted_vars, <<name>>)
                               = Subtree(result.variables_snapshot.extracted, <<name>>)
                    ELSE /\ Subtree(vm.extracted_vars, <<name>>)
                               = Extract(executor.step.extractors[CHOOSE j \in same :
                                             \A k \in same : k <= j], result.response).value
                         /\ Subtree(result.extracted_vars, <<name>>)
                               = Subtree(vm.extracted_vars, <<name>>)

C24_Witness ==
    /\ pc = "teardown"
    /\ trace.step_returned
    /\ Len(executor.step.extractors) = 4
    /\ create_extractor(executor.step.extractors[1].type).raised
    /\ Extract(executor.step.extractors[2], result.response).raised
    /\ Delivers(3)
    /\ Subtree(vm.extracted_vars, <<k_tok>>) = Leaf("abc")
    /\ Subtree(vm.extracted_vars, <<k_id>>) = EmptyDoc

\* C25: for every string without "{{" and every state of the variable manager,
\* render_string returns the string unchanged and does not raise, render_dict
\* leaves every such leaf unchanged, and what is no string is returned unchanged.
C25_PlainTextUnchanged ==
    /\ (ret.op = "render_string" /\ ~HasExpression(ret.name))
          => (~ret.raised /\ ret.value = SourceText(ret.name))
    /\ ret.op = "render_dict"
          => \A k \in DOMAIN ret.name :
                ~HasExpression(ret.name[k]) => ret.value[k] = SourceText(ret.name[k])

\* C26: for every run started through the command line, with or without
\* --profile, the active profile in force when the executor has initialised the
\* variables is a key of profiles, and the profile layer of the variable
\* manager holds that profile's variables.
C26_ActiveProfileIsKey ==
    (call.op = "main" /\ pc \notin {"cli", "init"}
       /\ test_case.config.active_profile /= NoProfile)
        => /\ test_case.config.active_profile \in TopKeys(test_case.config.profiles)
           /\ vm.profile_vars = Subtree(test_case.config.profiles,
                                        <<test_case.config.active_profile, k_variables>>)

\* the nested map of a GlobalConfig
ConfigMap(config) ==
    [ p \in {<<k_name>>, <<k_active_profile>>, <<k_timeout>>, <<k_retry_times>>}
              \cup {<<k_variables>> \o q : q \in DOMAIN config.variables}
              \cup {<<k_profiles>> \o q : q \in DOMAIN config.profiles} |->
        CASE p = <<k_name>> -> config.name
          [] p = <<k_active_profile>> -> NameText(config.active_profile)
          [] p = <<k_timeout>> -> NumText(config.timeout)
          [] p = <<k_retry_times>> -> NumText(config.retry_times)
          [] p[1] = k_variables -> config.variables[Tail(p)]
          [] OTHER -> config.profiles[Tail(p)] ]

\* C27: after TestCaseExecutor has initialised the variables, the name config
\* resolves, with get_variable and in get_all_variables, to the nested map of
\* the GlobalConfig, whatever config.variables and the variables of the active
\* profile hold.
C27_ConfigInjected ==
    (pc \notin {"cli", "init"} /\ cur >= 1)
        => /\ get_variable(vm, k_config, EmptyDoc) = ConfigMap(test_case.config)
           /\ Subtree(get_all_variables(vm), <<k_config>>) = ConfigMap(test_case.config)

\* C28: a concurrent step runs its branches and merges their extracted
\* variables in declaration order: the executor does not raise at a concurrent
\* step, and the report has a result for it.
C28_ConcurrentMerge ==
    \A i \in 1..Len(test_case.steps) :
        test_case.steps[i].type = "concurrent"
            => /\ ~(pc = "raised" /\ cur = i)
               /\ (pc = "done" /\ \A j \in 1..(i - 1) : report.steps[j].status /= "failure")
                     => (Len(report.steps) >= i /\ report.steps[i].name = test_case.steps[i].name)

\* C29: with effective retry_times R the attempts are numbered 0..R; after the
\* failure of attempt k < R the executor sleeps min(2^k, 10) seconds and makes
\* attempt k + 1; it sleeps neither after a success nor after the failure of
\* attempt R, and makes no attempt after a success.
C29_BackoffSchedule ==
    /\ trace.attempts <= (IF executor.retry_times < 0 THEN 0 ELSE executor.retry_times + 1)
    /\ Len(trace.sleeps) = (IF pc = "attempt" \/ trace.attempts = 0 THEN trace.attempts
                            ELSE trace.attempts - 1)
    /\ Len(trace.sleeps) <= (IF executor.retry_times < 0 THEN 0 ELSE executor.retry_times)
    /\ \A k \in 1..Len(trace.sleeps) :
          trace.sleeps[k] = (IF k - 1 >= 4 THEN 10 ELSE 2 ^ (k - 1))
    /\ trace.step_returned => pc /= "attempt"
    /\ pc = "attempt" => attempt = trace.attempts

C29_Witness ==
    /\ pc = "returned"
    /\ executor.retry_times = 5
    /\ trace.attempts = 6
    /\ trace.sleeps = <<1, 2, 4, 8, 10>>
    /\ result.status = "failure"

\* C30: if the StepResult execute returns has status failure or skipped, the
\* extracted layer at the return is the extracted layer at the call, and the
\* extracted_vars of the result is empty.
C30_CommitOnlyOnSuccess ==
    (pc = "returned" /\ result.status \in {"failure", "skipped"})
        => /\ vm.extracted_vars = result.variables_snapshot.extracted
           /\ result.extracted_vars = EmptyDoc

\* C31: at every poll the condition template of the step is evaluated against
\* the variables current at that poll: when the executor goes on to sleep after
\* a poll, the condition did not render to a truthy token with the variables
\* of that poll.
C31_PollsLiveEnvironment ==
    pc = "sleep" => ~call.live

\* the decimal literal of a number of the step, or its default
GetDec(value, default) == IF value = NoNumber THEN Dec(default, 0) ELSE value[1]

\* ceil(a / b) for positive decimal literals
CeilDiv(a, b) == (a.n * 10 ^ b.k + b.n * 10 ^ a.k - 1) \div (b.n * 10 ^ a.k)

\* C38: for interval > 0 and max_wait > 0 that pass the parameter checks,
\* _conditional_wait evaluates the condition at most ceil(max_wait / interval)
\* times, and its elapsed counter never exceeds max_wait + interval.
C38_ConditionalWaitBounded ==
    call.op = "_conditional_wait"
        => /\ call.evaluations <= CeilDiv(GetDec(executor.step.max_wait, DefaultMaxWait),
                                          GetDec(executor.step.interval, DefaultInterval))
           /\ ~FloatLess(FloatAdd(call.max_wait, call.interval), call.elapsed)

\* C32: a step with an only_if condition gets past the gate only if the
\* rendered condition is truthy; a condition on an unknown name, which renders
\* to the empty text, gates the step out.
C32_OnlyIfGate ==
    (pc = "setup" /\ executor.step.only_if /= NoTemplate)
        => LowerText(render_template(executor.step.only_if, get_all_variables(vm)).text)
              \in TrueTexts

\* the rule resolves to a value and its comparator returns false without raising
ComparesFalse(rule, response_data) ==
    /\ _extract_value(RulePath(rule), response_data).exc = "none"
    /\ get_comparator(rule.type) = "none"
    /\ Comparator(rule.type, _extract_value(RulePath(rule), response_data).value,
                  rule.expect).exc = "none"
    /\ ~Comparator(rule.type, _extract_value(RulePath(rule), response_data).value,
                   rule.expect).passed

\* C33: for every rule whose path resolves to a value a and whose comparator
\* returns false without raising, the record has passed = false, actual = a
\* and expected = the expect of the rule.
C33_RecordCarriesActual ==
    pc = "validated"
        => \A i \in 1..Len(call.validations) :
              ComparesFalse(call.validations[i], call.response_data)
                 => /\ ~ret.results[i].passed
                    /\ ret.results[i].actual
                          = _extract_value(RulePath(call.validations[i]),
                                           call.response_data).value
                    /\ ret.results[i].expected = call.validations[i].expect

\* every depends_on entry of step i names an earlier step of the test case
\* that finished with status success
DependenciesSatisfied(i) ==
    \A dep \in test_case.steps[i].depends_on :
        \E j \in 1..(i - 1) :
            test_case.steps[j].name = dep /\ step_results[j].status = "success"

\* C34: executed through TestCaseExecutor, a step with no skip_if / only_if
\* whose every depends_on entry names an earlier step that finished with
\* status success is executed: its status is success or failure, not skipped.
C34_SatisfiedDependenciesRun ==
    \A i \in 1..Len(step_results) :
        ( /\ test_case.steps[i].skip_if = NoTemplate
          /\ test_case.steps[i].only_if = NoTemplate
          /\ DependenciesSatisfied(i) )
            => step_results[i].status \in {"success", "failure"}

\* C35: the StepResult execute returns has a status among success, failure and
\* skipped (never pending), an end_time, and an error_info exactly when its
\* status is failure.
C35_FinalStatus ==
    pc = "returned"
        => /\ result.status \in {"success", "failure", "skipped"}
           /\ result.end_time = TRUE
           /\ (result.error_info /= NoError) <=> (result.status = "failure")

\* C36: in every report made of the StepResults the step executors return,
\* passed_steps + failed_steps + skipped_steps = total_steps = the length of
\* the steps list, and the case status is failed exactly when failed_steps > 0.
C36_CounterConsistency ==
    pc = "done"
        => /\ report.statistics.passed_steps + report.statistics.failed_steps
                 + report.statistics.skipped_steps = report.statistics.total_steps
           /\ report.statistics.total_steps = Len(report.steps)
           /\ (report.test_case.status = "failed") <=> (report.statistics.failed_steps > 0)

\* C37: the attempts of a step are governed by the retry_times the step
\* declares whenever it declares one (a step declaring 0 is attempted once,
\* whatever config.retry_times is) and by config.retry_times only when it
\* declares none; the same holds for timeout.
C37_StepPolicyOverrides ==
    executor /= NoExecutor
        => /\ executor.retry_times
                 = (IF executor.step.retry_times /= NoRetry THEN executor.step.retry_times[1]
                    ELSE test_case.config.retry_times)
           /\ executor.timeout
                 = (IF executor.step.timeout /= NoNumber THEN executor.step.timeout[1]
                    ELSE test_case.config.timeout)
           /\ executor.step.retry_times = <<0>> => trace.attempts <= 1

\* the outcome the backend stores for a step status of the engine
Outcome(status) ==
    CASE status = "success" -> "success"
      [] status = "failure" -> "failed"
      [] status = "skipped" -> "skipped"

\* the error_info of the first step of the report with the status failure
RECURSIVE FirstFailure(_)
FirstFailure(steps) ==
    IF steps = <<>> THEN NoError
    ELSE IF Head(steps).status = "failure" THEN Head(steps).error_info
    ELSE FirstFailure(Tail(steps))

\* C39: every step status of the report of the engine (success, failure,
\* skipped) is stored as the corresponding outcome (a failure as failed, not
\* as error), and extract_error_info finds the error of the first failed step
\* of a failed report.
C39_StatusesAgree ==
    pc = "processed"
        => /\ \A i \in 1..Len(report.steps) :
                 report.steps[i].status \in {"success", "failure", "skipped"}
                    => ret.steps[i].status = Outcome(report.steps[i].status)
           /\ report.test_case.status = "failed"
                 => /\ ret.error_info /= NoError
                    /\ ret.error_info.type = FirstFailure(report.steps).type

====
